---- MODULE Spec2Model ----
(***************************************************************************)
(* LLMO diagnosis site: the POST /api/diagnose handler, the diagnosis      *)
(* cache, the scraper and the anonymous-content filter.                    *)
(*                                                                         *)
(* Text is modelled as the code sees it: a string is a sequence of         *)
(* one-character strings.  A character outside ASCII is written "uXXXX"    *)
(* (its code point), e.g. "u8A73" "u7D30" is the keyword of auth.ts:382.   *)
(***************************************************************************)
EXTENDS Integers, Sequences, FiniteSets, TLC

(***************************************************************************)
(* String primitives of the JavaScript runtime used by the code.           *)
(***************************************************************************)
LF == "\n"

Digits == {"0", "1", "2", "3", "4", "5", "6", "7", "8", "9"}

UpperCase == <<"A", "B", "C", "D", "E", "F", "G", "H", "I", "J", "K", "L", "M",
               "N", "O", "P", "Q", "R", "S", "T", "U", "V", "W", "X", "Y", "Z">>

LowerCase == <<"a", "b", "c", "d", "e", "f", "g", "h", "i", "j", "k", "l", "m",
               "n", "o", "p", "q", "r", "s", "t", "u", "v", "w", "x", "y", "z">>

\* the characters String.prototype.trim and the regex class \s remove
WhiteSpace == {" ", "\t", LF, "\r"}

\* s.startsWith(p)
StartsWith(s, p) == Len(s) >= Len(p) /\ SubSeq(s, 1, Len(p)) = p

\* s.endsWith(p)
EndsWith(s, p) == Len(s) >= Len(p) /\ SubSeq(s, Len(s) - Len(p) + 1, Len(s)) = p

\* p occurs in s at the 1-based position i
MatchAt(s, p, i) == i >= 1 /\ i + Len(p) - 1 <= Len(s) /\ SubSeq(s, i, i + Len(p) - 1) = p

\* s.includes(p)
Includes(s, p) == \E i \in 1..(Len(s) - Len(p) + 1) : MatchAt(s, p, i)

\* s.substring(a, b), 0-based, end exclusive
Substring(s, a, b) == SubSeq(s, a + 1, b)

Min(a, b) == IF a <= b THEN a ELSE b

LowerChar(c) ==
    IF \E i \in 1..Len(UpperCase) : UpperCase[i] = c
    THEN LowerCase[CHOOSE i \in 1..Len(UpperCase) : UpperCase[i] = c]
    ELSE c

\* s.toLowerCase()
ToLowerCase(s) == [i \in 1..Len(s) |-> LowerChar(s[i])]

\* s.trim()
Trim(s) ==
    LET keep == {i \in 1..Len(s) : s[i] \notin WhiteSpace}
    IN  IF keep = {} THEN <<>>
        ELSE LET lo == CHOOSE i \in keep : \A j \in 1..(i - 1) : s[j] \in WhiteSpace
                 hi == CHOOSE i \in keep : \A j \in (i + 1)..Len(s) : s[j] \in WhiteSpace
             IN  SubSeq(s, lo, hi)

RECURSIVE Split(_)
\* s.split('\n'): the empty string gives one empty line
Split(s) ==
    IF \E i \in 1..Len(s) : s[i] = LF
    THEN LET k == CHOOSE i \in 1..Len(s) : s[i] = LF /\ \A j \in 1..(i - 1) : s[j] # LF
         IN  <<SubSeq(s, 1, k - 1)>> \o Split(SubSeq(s, k + 1, Len(s)))
    ELSE <<s>>

RECURSIVE Join(_)
\* lines.join('\n'): no lines give the empty string
Join(lines) ==
    IF Len(lines) = 0 THEN <<>>
    ELSE IF Len(lines) = 1 THEN lines[1]
    ELSE lines[1] \o <<LF>> \o Join(Tail(lines))

(***************************************************************************)
(* filterDiagnosisForAnonymous (lib/auth.ts)                               *)
(***************************************************************************)
\* the four keywords of the restricted-section test
RestrictedKeywords ==
    { <<"u8A73", "u7D30">>, <<"u6539", "u5584">>,
      <<"u63D0", "u6848">>, <<"u5177", "u4F53">> }

\* '●●●●● 詳細を見るには会員登録が必要です ●●●●●'
MaskLine ==
    <<"u25CF", "u25CF", "u25CF", "u25CF", "u25CF", " ", "u8A73", "u7D30",
      "u3092", "u898B", "u308B", "u306B", "u306F", "u4F1A", "u54E1", "u767B",
      "u9332", "u304C", "u5FC5", "u8981", "u3067", "u3059", " ", "u25CF",
      "u25CF", "u25CF", "u25CF", "u25CF">>

\* '... ●●●●●', appended to the prefix of a list item
MaskSuffix == <<".", ".", ".", " ", "u25CF", "u25CF", "u25CF", "u25CF", "u25CF">>

\* the prefix of a list item that stays visible
ListPrefixLen == 20

AllDigits(s, a, b) == a <= b /\ \A k \in a..b : s[k] \in Digits

\* /\d+(\.\d+)?[%点]/ matching from position i
NumberUnitAt(s, i) ==
    \E j \in i..Len(s) :
        /\ AllDigits(s, i, j)
        /\ \/ (j + 1 <= Len(s) /\ s[j + 1] \in {"%", "u70B9"})
           \/ /\ j + 1 <= Len(s)
              /\ s[j + 1] = "."
              /\ \E k \in (j + 2)..Len(s) :
                    /\ AllDigits(s, j + 2, k)
                    /\ k + 1 <= Len(s)
                    /\ s[k + 1] \in {"%", "u70B9"}

\* line.match(/\d+(\.\d+)?[%点]|[A-F]評価|スコア:|評価:/)
IsScoreLine(line) ==
    \E i \in 1..Len(line) :
        \/ NumberUnitAt(line, i)
        \/ (line[i] \in {"A", "B", "C", "D", "E", "F"}
              /\ MatchAt(line, <<"u8A55", "u4FA1">>, i + 1))
        \/ MatchAt(line, <<"u30B9", "u30B3", "u30A2", ":">>, i)
        \/ MatchAt(line, <<"u8A55", "u4FA1", ":">>, i)

IsHeadingLine(line) == StartsWith(line, <<"#">>)

IsListLine(line) == StartsWith(line, <<"-", " ">>) \/ StartsWith(line, <<"*", " ">>)

\* the value the heading branch assigns to inRestrictedSection
HeadingRestricts(line) == \E kw \in RestrictedKeywords : Includes(ToLowerCase(line), kw)

\* a variant in which a heading without keyword leaves the flag as it is
NextRestrictedNeverCleared(inRestrictedSection, line) ==
    IF IsHeadingLine(line) THEN inRestrictedSection \/ HeadingRestricts(line)
    ELSE inRestrictedSection

\* a variant in which only a heading of level two or deeper sets the flag
NextRestrictedFromLevelTwo(inRestrictedSection, line) ==
    IF IsHeadingLine(line)
    THEN StartsWith(line, <<"#", "#">>) /\ HeadingRestricts(line)
    ELSE inRestrictedSection

\* the flag after the loop body has run on `line`
NextRestricted(inRestrictedSection, line) ==
    IF IsHeadingLine(line) THEN HeadingRestricts(line) ELSE inRestrictedSection

\* a variant that drops blank lines outside restricted sections too
FilterLineDropsBlank(inRestrictedSection, line) ==
    IF IsHeadingLine(line) THEN <<line>>
    ELSE IF IsScoreLine(line) THEN <<line>>
    ELSE IF Trim(line) = <<>> THEN <<>>
    ELSE IF inRestrictedSection
         THEN IF IsListLine(line)
              THEN <<Substring(line, 0, Min(Len(line), ListPrefixLen)) \o MaskSuffix>>
              ELSE <<MaskLine>>
    ELSE <<line>>

\* a variant whose placeholder for prose shows the first character of the line
FilterLineShowsInitial(inRestrictedSection, line) ==
    IF IsHeadingLine(line) THEN <<line>>
    ELSE IF IsScoreLine(line) THEN <<line>>
    ELSE IF inRestrictedSection /\ Trim(line) # <<>>
         THEN IF IsListLine(line)
              THEN <<Substring(line, 0, Min(Len(line), ListPrefixLen)) \o MaskSuffix>>
              ELSE <<Substring(line, 0, 1) \o MaskLine>>
    ELSE IF ~inRestrictedSection THEN <<line>>
    ELSE <<>>

\* what one pass of the loop body pushes for `line`: a sequence of 0 or 1 lines
FilterLine(inRestrictedSection, line) ==
    IF IsHeadingLine(line) THEN <<line>>
    ELSE IF IsScoreLine(line) THEN <<line>>
    ELSE IF inRestrictedSection /\ Trim(line) # <<>>
         THEN IF IsListLine(line)
              THEN <<Substring(line, 0, Min(Len(line), ListPrefixLen)) \o MaskSuffix>>
              ELSE <<MaskLine>>
    ELSE IF ~inRestrictedSection THEN <<line>>
    ELSE <<>>

RECURSIVE FilterLoop(_, _, _)
\* the for loop over lines, from a given flag and accumulated output
FilterLoop(lines, inRestrictedSection, filteredLines) ==
    IF lines = <<>> THEN filteredLines
    ELSE FilterLoop(Tail(lines),
                    NextRestricted(inRestrictedSection, Head(lines)),
                    filteredLines \o FilterLine(inRestrictedSection, Head(lines)))

filterDiagnosisForAnonymous(fullResult) ==
    Join(FilterLoop(Split(fullResult), FALSE, <<>>))

(***************************************************************************)
(* validateUrl (lib/scraper.ts)                                            *)
(***************************************************************************)
Letters == {LowerCase[i] : i \in 1..Len(LowerCase)}

\* [\da-z.-] under the i flag
DomainChars == Letters \cup Digits \cup {".", "-"}

\* [a-z.] under the i flag
TldChars == Letters \cup {"."}

\* [\/\w .-] under the i flag
PathChars == Letters \cup Digits \cup {"_", "/", " ", ".", "-"}

AllIn(s, a, b, set) == \A k \in a..b : LowerChar(s[k]) \in set

\* /^https?:\/\/([\da-z.-]+)\.([a-z.]{2,6})([\/\w .-]*)*\/?$/i .test(url)
\* p is the position after "http://" or "https://"; the domain group is
\* p..i-1, the dot is at i, the second group is i+1..j, the rest is the tail
URL_VALIDATION_PATTERN(url) ==
    LET low == ToLowerCase(url)
        starts == {p \in 1..(Len(url) + 1) :
                      \/ (p = 8 /\ StartsWith(low, <<"h", "t", "t", "p", ":", "/", "/">>))
                      \/ (p = 9 /\ StartsWith(low, <<"h", "t", "t", "p", "s", ":", "/", "/">>))}
    IN  \E p \in starts :
          \E i \in (p + 1)..Len(url) :
            \E j \in (i + 2)..Min(i + 6, Len(url)) :
                /\ AllIn(url, p, i - 1, DomainChars)
                /\ url[i] = "."
                /\ AllIn(url, i + 1, j, TldChars)
                /\ AllIn(url, j + 1, Len(url), PathChars)

\* position of the first character of s, at or after `from`, that is in set;
\* Len(s) + 1 when there is none
FirstIn(s, from, set) ==
    IF \E i \in from..Len(s) : s[i] \in set
    THEN CHOOSE i \in from..Len(s) : s[i] \in set /\ \A j \in from..(i - 1) : s[j] \notin set
    ELSE Len(s) + 1

SchemeChars == Letters \cup Digits \cup {"+", "-", "."}

\* code points a host may not contain (URL standard, forbidden host code points)
ForbiddenHostChars ==
    {" ", "#", "/", ":", "<", ">", "?", "@", "[", "\\", "]", "^", "|", "%", "\t", LF, "\r"}

\* new URL(url) for an absolute URL without credentials: ok is FALSE where the
\* constructor throws; protocol and hostname are lower-cased as the parser
\* does; href is the serialisation (an empty path becomes "/").
\* A bracketed IPv6 host keeps its brackets in hostname.
ParseUrl(url) ==
    LET colon == FirstIn(url, 1, {":"})
        okScheme == /\ colon >= 2 /\ colon <= Len(url)
                    /\ LowerChar(url[1]) \in Letters
                    /\ AllIn(url, 1, colon - 1, SchemeChars)
        scheme == ToLowerCase(SubSeq(url, 1, colon - 1))
        special == scheme \in {<<"h", "t", "t", "p">>, <<"h", "t", "t", "p", "s">>}
        \* special schemes: any run of slashes and backslashes is skipped
        a == IF \E i \in (colon + 1)..Len(url) : url[i] \notin {"/", "\\"}
             THEN CHOOSE i \in (colon + 1)..Len(url) :
                     url[i] \notin {"/", "\\"} /\ \A j \in (colon + 1)..(i - 1) : url[j] \in {"/", "\\"}
             ELSE Len(url) + 1
        e == FirstIn(url, a, {"/", "\\", "?", "#"})
        authority == SubSeq(url, a, e - 1)
        v6 == StartsWith(authority, <<"[">>)
        hostEnd == IF v6 THEN FirstIn(authority, 1, {"]"})
                   ELSE FirstIn(authority, 1, {":"}) - 1
        host == ToLowerCase(SubSeq(authority, 1, Min(hostEnd, Len(authority))))
        port == SubSeq(authority, hostEnd + 1, Len(authority))
        okPort == port = <<>> \/ (port[1] = ":" /\ \A k \in 2..Len(port) : port[k] \in Digits)
        okHost == /\ host # <<>>
                  /\ IF v6 THEN hostEnd <= Len(authority)
                     ELSE \A k \in 1..Len(host) : host[k] \notin ForbiddenHostChars
        tail == SubSeq(url, e, Len(url))
        path == IF tail = <<>> \/ tail[1] \in {"?", "#"} THEN <<"/">> \o tail ELSE tail
    IN  IF ~okScheme THEN [ok |-> FALSE, protocol |-> <<>>, hostname |-> <<>>, href |-> <<>>]
        ELSE IF ~special
        THEN [ok |-> TRUE, protocol |-> scheme \o <<":">>, hostname |-> <<>>, href |-> url]
        ELSE IF ~(okHost /\ okPort)
        THEN [ok |-> FALSE, protocol |-> <<>>, hostname |-> <<>>, href |-> <<>>]
        ELSE [ok |-> TRUE, protocol |-> scheme \o <<":">>, hostname |-> host,
              href |-> scheme \o <<":", "/", "/">> \o host \o port \o path]

\* the regular expressions of PRIVATE_IP_PATTERNS, each tested on hostname
TwoDigitsIn(h, i, first, seconds) ==
    Len(h) >= i + 2 /\ h[i] = first /\ h[i + 1] \in seconds /\ h[i + 2] = "."

PRIVATE_IP_PATTERNS(hostname) ==
    \/ StartsWith(hostname, <<"1", "0", ".">>)
    \/ (StartsWith(hostname, <<"1", "7", "2", ".">>)
          /\ \/ TwoDigitsIn(hostname, 5, "1", {"6", "7", "8", "9"})
             \/ TwoDigitsIn(hostname, 5, "2", Digits)
             \/ TwoDigitsIn(hostname, 5, "3", {"0", "1"}))
    \/ StartsWith(hostname, <<"1", "9", "2", ".", "1", "6", "8", ".">>)
    \/ StartsWith(hostname, <<"1", "2", "7", ".">>)
    \/ StartsWith(hostname, <<"1", "6", "9", ".", "2", "5", "4", ".">>)
    \/ hostname = <<":", ":", "1">>
    \/ StartsWith(hostname, <<"f", "c", "0", "0", ":">>)
    \/ StartsWith(hostname, <<"f", "e", "8", "0", ":">>)

IsLocalhost(hostname) ==
    \/ hostname = <<"l", "o", "c", "a", "l", "h", "o", "s", "t">>
    \/ EndsWith(hostname, <<".", "l", "o", "c", "a", "l", "h", "o", "s", "t">>)

\* validateUrl: the parsed URL, or the message of the Error it throws
validateUrl(url) ==
    LET parsedUrl == ParseUrl(url)
    IN  IF ~parsedUrl.ok THEN [ok |-> FALSE, error |-> "MSG_INVALID_URL_FORMAT"]
        ELSE IF parsedUrl.protocol \notin {<<"h", "t", "t", "p", ":">>, <<"h", "t", "t", "p", "s", ":">>}
        THEN [ok |-> FALSE, error |-> "MSG_UNSUPPORTED_PROTOCOL"]
        ELSE IF ~URL_VALIDATION_PATTERN(url)
        THEN [ok |-> FALSE, error |-> "MSG_INVALID_DOMAIN"]
        ELSE IF PRIVATE_IP_PATTERNS(parsedUrl.hostname)
        THEN [ok |-> FALSE, error |-> "MSG_PRIVATE_IP"]
        ELSE IF IsLocalhost(parsedUrl.hostname)
        THEN [ok |-> FALSE, error |-> "MSG_LOCALHOST"]
        ELSE [ok |-> TRUE, url |-> parsedUrl]

(***************************************************************************)
(* extractMetadata and the assembly of the analysis content                *)
(* (lib/scraper.ts).  `low` is html.toLowerCase(), for the i flag.         *)
(***************************************************************************)
\* end of the opening tag that starts with `open` at i (its first ">"), or 0
OpenTagEnd(html, low, open, i) ==
    IF MatchAt(low, open, i) /\ FirstIn(html, i + Len(open), {">"}) <= Len(html)
    THEN FirstIn(html, i + Len(open), {">"})
    ELSE 0

\* /<title[^>]*>([^<]*)<\/title>/i at i: the position of "</title>", or 0
TitleCloseAt(html, low, i) ==
    LET g == OpenTagEnd(html, low, <<"<", "t", "i", "t", "l", "e">>, i)
        l == FirstIn(html, g + 1, {"<"})
    IN  IF g > 0 /\ MatchAt(low, <<"<", "/", "t", "i", "t", "l", "e", ">">>, l) THEN l ELSE 0

ExtractTitle(html) ==
    LET low == ToLowerCase(html)
        hits == {i \in 1..Len(html) : TitleCloseAt(html, low, i) > 0}
    IN  IF hits = {} THEN <<>>
        ELSE LET i == CHOOSE k \in hits : \A m \in hits : k <= m
                 g == OpenTagEnd(html, low, <<"<", "t", "i", "t", "l", "e">>, i)
             IN  Trim(SubSeq(html, g + 1, TitleCloseAt(html, low, i) - 1))

Quotes == {"\"", "'"}

NoneIn(s, a, b, set) == \A k \in a..b : s[k] \notin set

\* name=["']description["'] at n
NameAttrAt(low, n) ==
    /\ MatchAt(low, <<"n", "a", "m", "e", "=">>, n)
    /\ n + 5 <= Len(low) /\ low[n + 5] \in Quotes
    /\ MatchAt(low, <<"d", "e", "s", "c", "r", "i", "p", "t", "i", "o", "n">>, n + 6)
    /\ n + 17 <= Len(low) /\ low[n + 17] \in Quotes

\* content=["']([^"']*)["'][^>]*> at c: the group is c+9 .. q-1
ContentAttrAt(html, low, c) ==
    /\ MatchAt(low, <<"c", "o", "n", "t", "e", "n", "t", "=">>, c)
    /\ c + 8 <= Len(low) /\ low[c + 8] \in Quotes
    /\ LET q == FirstIn(html, c + 9, Quotes)
       IN  q <= Len(html) /\ FirstIn(html, q + 1, {">"}) <= Len(html)

\* the (n, c) positions with which the description pattern matches from i
\* /<meta[^>]*name=["']description["'][^>]*content=["']([^"']*)["'][^>]*>/i
MetaMatches(html, low, i) ==
    IF ~MatchAt(low, <<"<", "m", "e", "t", "a">>, i) THEN {}
    ELSE LET ns == {n \in (i + 5)..Len(html) :
                       NameAttrAt(low, n) /\ NoneIn(html, i + 5, n - 1, {">"})}
             cs == {c \in (i + 5)..Len(html) : ContentAttrAt(html, low, c)}
         IN  {nc \in ns \X cs :
                 nc[2] >= nc[1] + 18 /\ NoneIn(html, nc[1] + 18, nc[2] - 1, {">"})}

ExtractDescription(html) ==
    LET low == ToLowerCase(html)
        metas == {i \in 1..Len(html) : MatchAt(low, <<"<", "m", "e", "t", "a">>, i)}
        hits == {i \in metas : MetaMatches(html, low, i) # {}}
    IN  IF hits = {} THEN <<>>
        ELSE LET i == CHOOSE k \in hits : \A m \in hits : k <= m
                 ms == MetaMatches(html, low, i)
                 \* both [^>]* are greedy: the last name=, then the last content=
                 n == CHOOSE k \in {m[1] : m \in ms} : \A m \in ms : m[1] <= k
                 c == CHOOSE k \in {m[2] : m \in {mm \in ms : mm[1] = n}} :
                         \A m \in {mm \in ms : mm[1] = n} : m[2] <= k
             IN  Trim(SubSeq(html, c + 9, FirstIn(html, c + 9, Quotes) - 1))

HeadingLevels == {"1", "2", "3", "4", "5", "6"}

\* /<h[1-6][^>]*>([^<]*)<\/h[1-6]>/i at i: the position of the closing tag, or 0
HeadingCloseAt(html, low, i) ==
    LET g == IF i + 2 <= Len(html) /\ low[i + 2] \in HeadingLevels
             THEN OpenTagEnd(html, low, <<"<", "h">>, i) ELSE 0
        l == FirstIn(html, g + 1, {"<"})
    IN  IF /\ g > 0
           /\ MatchAt(low, <<"<", "/", "h">>, l)
           /\ l + 4 <= Len(html) /\ low[l + 3] \in HeadingLevels /\ low[l + 4] = ">"
        THEN l ELSE 0

\* end of the tag /<[^>]+>/ that starts at i, or 0
TagEnd(s, i) ==
    LET g == FirstIn(s, i + 1, {">"})
    IN  IF s[i] = "<" /\ g >= i + 2 /\ g <= Len(s) THEN g ELSE 0

\* the least element of a non-empty set of positions
Least(set) == CHOOSE k \in set : \A m \in set : k <= m

RECURSIVE ReplaceTags(_, _, _)
\* s.replace(/<[^>]+>/g, rep), from position i: one step per match
ReplaceTags(s, i, rep) ==
    LET hits == {k \in i..Len(s) : TagEnd(s, k) > 0}
    IN  IF hits = {} THEN SubSeq(s, i, Len(s))
        ELSE SubSeq(s, i, Least(hits) - 1) \o rep \o ReplaceTags(s, TagEnd(s, Least(hits)) + 1, rep)

RECURSIVE HeadingMatches(_, _, _)
\* html.match(/<h[1-6][^>]*>([^<]*)<\/h[1-6]>/gi) from position i: the matched texts
HeadingMatches(html, low, i) ==
    LET hits == {k \in i..Len(html) : HeadingCloseAt(html, low, k) > 0}
    IN  IF hits = {} THEN <<>>
        ELSE <<SubSeq(html, Least(hits), HeadingCloseAt(html, low, Least(hits)) + 4)>>
                \o HeadingMatches(html, low, HeadingCloseAt(html, low, Least(hits)) + 5)

ExtractHeadings(html) ==
    LET ms == HeadingMatches(html, ToLowerCase(html), 1)
        texts == [k \in 1..Len(ms) |-> Trim(ReplaceTags(ms[k], 1, <<>>))]
    IN  SelectSeq(texts, LAMBDA text : Len(text) > 0)

\* /<open[^>]*>[\s\S]*?<\/open>/i at i: the end of the closing tag, or 0
BlockEnd(s, low, open, close, i) ==
    LET g == OpenTagEnd(s, low, open, i)
        ends == {k \in (g + 1)..Len(s) : MatchAt(low, close, k)}
    IN  IF g > 0 /\ ends # {}
        THEN (CHOOSE k \in ends : \A m \in ends : k <= m) + Len(close) - 1
        ELSE 0

RECURSIVE RemoveBlocks(_, _, _, _, _)
\* s.replace(/<open[^>]*>[\s\S]*?<\/open>/gi, ''), from position i
RemoveBlocks(s, low, open, close, i) ==
    LET hits == {k \in i..Len(s) : BlockEnd(s, low, open, close, k) > 0}
    IN  IF hits = {} THEN SubSeq(s, i, Len(s))
        ELSE SubSeq(s, i, Least(hits) - 1)
                \o RemoveBlocks(s, low, open, close, BlockEnd(s, low, open, close, Least(hits)) + 1)

EntityChars == Letters \cup Digits \cup {"#"}

\* end of the entity /&[a-zA-Z0-9#]+;/ that starts at i, or 0
EntityEnd(s, i) ==
    LET e == IF \E k \in (i + 1)..Len(s) : LowerChar(s[k]) \notin EntityChars
             THEN CHOOSE k \in (i + 1)..Len(s) :
                     /\ LowerChar(s[k]) \notin EntityChars
                     /\ \A j \in (i + 1)..(k - 1) : LowerChar(s[j]) \in EntityChars
             ELSE 0
    IN  IF s[i] = "&" /\ e >= i + 2 /\ s[e] = ";" THEN e ELSE 0

RECURSIVE ReplaceEntities(_, _)
\* s.replace(/&[a-zA-Z0-9#]+;/g, ' '), from position i
ReplaceEntities(s, i) ==
    LET hits == {k \in i..Len(s) : EntityEnd(s, k) > 0}
    IN  IF hits = {} THEN SubSeq(s, i, Len(s))
        ELSE SubSeq(s, i, Least(hits) - 1) \o <<" ">> \o ReplaceEntities(s, EntityEnd(s, Least(hits)) + 1)

\* s.replace(/\s+/g, ' '): a whitespace character survives, as a space, when
\* it begins a run of whitespace; every other character survives as it is
CollapseSpace(s) ==
    LET keep == SelectSeq([k \in 1..Len(s) |-> k],
                          LAMBDA k : s[k] \notin WhiteSpace \/ k = 1 \/ s[k - 1] \notin WhiteSpace)
    IN  [n \in 1..Len(keep) |-> IF s[keep[n]] \in WhiteSpace THEN " " ELSE s[keep[n]]]

ExtractBodyText(html) ==
    LET noScript == RemoveBlocks(html, ToLowerCase(html), <<"<", "s", "c", "r", "i", "p", "t">>,
                                 <<"<", "/", "s", "c", "r", "i", "p", "t", ">">>, 1)
        noStyle == RemoveBlocks(noScript, ToLowerCase(noScript), <<"<", "s", "t", "y", "l", "e">>,
                                <<"<", "/", "s", "t", "y", "l", "e", ">">>, 1)
    IN  Trim(CollapseSpace(ReplaceEntities(ReplaceTags(noStyle, 1, <<" ">>), 1)))

extractMetadata(html) ==
    [title |-> ExtractTitle(html),
     description |-> ExtractDescription(html),
     headings |-> ExtractHeadings(html),
     bodyText |-> ExtractBodyText(html)]

LabelTitle == <<"u30BF", "u30A4", "u30C8", "u30EB", ":", " ">>

LabelDescription == <<"u8AAC", "u660E", ":", " ">>

LabelHeadings == <<"u898B", "u51FA", "u3057", ":", " ">>

LabelBody == <<"u672C", "u6587", ":", " ">>

\* '\n\n[コンテンツが長すぎるため、一部のみを抽出しています]'
ScrapeTruncationNotice ==
    <<"\n", "\n", "[", "u30B3", "u30F3", "u30C6", "u30F3", "u30C4", "u304C",
      "u9577", "u3059", "u304E", "u308B", "u305F", "u3081", "u3001", "u4E00",
      "u90E8", "u306E", "u307F", "u3092", "u62BD", "u51FA", "u3057", "u3066",
      "u3044", "u307E", "u3059", "]">>

RECURSIVE JoinWith(_, _)
\* parts.join(sep)
JoinWith(parts, sep) ==
    IF Len(parts) = 0 THEN <<>>
    ELSE IF Len(parts) = 1 THEN parts[1]
    ELSE parts[1] \o sep \o JoinWith(Tail(parts), sep)

\* the four labelled sections, the empty ones dropped, joined by a blank line
LabelledSections(m) ==
    LET parts == << IF m.title # <<>> THEN LabelTitle \o m.title ELSE <<>>,
                    IF m.description # <<>> THEN LabelDescription \o m.description ELSE <<>>,
                    IF Len(m.headings) > 0
                        THEN LabelHeadings \o JoinWith(m.headings, <<",", " ">>) ELSE <<>>,
                    IF m.bodyText # <<>> THEN LabelBody \o m.bodyText ELSE <<>> >>
    IN  JoinWith(SelectSeq(parts, LAMBDA part : part # <<>>), <<LF, LF>>)

\* analysisContent, from the metadata extracted once
AnalysisContent(html) ==
    CHOOSE analysisContent \in {LabelledSections(m) : m \in {extractMetadata(html)}} : TRUE

\* the scraper's cap on the analysis content
maxLength == 10000

\* the floor below which a fetched body is refused
MinHtmlLength == 100

\* a mistaken test of the cap, off by one
TooLongAtLeast(analysisContent) == Len(analysisContent) >= maxLength

\* analysisContent.length > maxLength
TooLong(analysisContent) == Len(analysisContent) > maxLength

\* analysisContent.substring(0, maxLength) + the notice
Truncated(analysisContent) ==
    Substring(analysisContent, 0, maxLength) \o ScrapeTruncationNotice

(***************************************************************************)
(* Inputs: request bodies, headers, pages and analysis texts.              *)
(***************************************************************************)
\* 'https://example.com'
UrlExample ==
    <<"h", "t", "t", "p", "s", ":", "/", "/", "e", "x", "a", "m", "p", "l",
      "e", ".", "c", "o", "m">>

\* ' https://example.com ': trimmed by the handler to UrlExample
UrlPadded == <<" ">> \o UrlExample \o <<" ">>

\* 'http://192.168.1.1/'
UrlPrivate ==
    <<"h", "t", "t", "p", ":", "/", "/", "1", "9", "2", ".", "1", "6", "8",
      ".", "1", ".", "1", "/">>

\* the value of a JSON field or header that is absent (null)
Null == "null"

\* request bodies as request.json() yields them: kind "notObject" is a body
\* that is no JSON or no object, "noUrl" an object without url,
\* "urlNotString" a url that is a number, "url" a string url
Bodies ==
    { [kind |-> "notObject", url |-> <<>>],
      [kind |-> "noUrl", url |-> <<>>],
      [kind |-> "urlNotString", url |-> <<>>],
      [kind |-> "url", url |-> <<>>],
      [kind |-> "url", url |-> <<" ", " ">>],
      [kind |-> "url", url |-> UrlExample],
      [kind |-> "url", url |-> UrlPadded],
      [kind |-> "url", url |-> UrlPrivate] }

\* Authorization headers: absent (the empty string is as falsy as null),
\* 'Basic t1', 'Bearer t1'
AuthHeaders ==
    { <<>>,
      <<"B", "a", "s", "i", "c", " ", "t", "1">>,
      <<"B", "e", "a", "r", "e", "r", " ", "t", "1">> }

BearerPrefix == <<"B", "e", "a", "r", "e", "r", " ">>

\* <html><head><title>Example</title><meta name="description" content="Demo">
\* </head><body><h1>Hello</h1><p>World</p></body></html>   (127 characters)
PageExample ==
    <<"<", "h", "t", "m", "l", ">", "<", "h", "e", "a", "d", ">", "<", "t",
      "i", "t", "l", "e", ">", "E", "x", "a", "m", "p", "l", "e", "<", "/",
      "t", "i", "t", "l", "e", ">", "<", "m", "e", "t", "a", " ", "n", "a",
      "m", "e", "=", "\"", "d", "e", "s", "c", "r", "i", "p", "t", "i", "o",
      "n", "\"", " ", "c", "o", "n", "t", "e", "n", "t", "=", "\"", "D", "e",
      "m", "o", "\"", ">", "<", "/", "h", "e", "a", "d", ">", "<", "b", "o",
      "d", "y", ">", "<", "h", "1", ">", "H", "e", "l", "l", "o", "<", "/",
      "h", "1", ">", "<", "p", ">", "W", "o", "r", "l", "d", "<", "/", "p",
      ">", "<", "/", "b", "o", "d", "y", ">", "<", "/", "h", "t", "m", "l",
      ">">>

\* <html><head><script src="/app.js">boot()</script><style>body{margin:0}
\* </style></head><body><div id="root"></div></body></html>  (126 characters)
PageNoContent ==
    <<"<", "h", "t", "m", "l", ">", "<", "h", "e", "a", "d", ">", "<", "s",
      "c", "r", "i", "p", "t", " ", "s", "r", "c", "=", "\"", "/", "a", "p",
      "p", ".", "j", "s", "\"", ">", "b", "o", "o", "t", "(", ")", "<", "/",
      "s", "c", "r", "i", "p", "t", ">", "<", "s", "t", "y", "l", "e", ">",
      "b", "o", "d", "y", "{", "m", "a", "r", "g", "i", "n", ":", "0", "}",
      "<", "/", "s", "t", "y", "l", "e", ">", "<", "/", "h", "e", "a", "d",
      ">", "<", "b", "o", "d", "y", ">", "<", "d", "i", "v", " ", "i", "d",
      "=", "\"", "r", "o", "o", "t", "\"", ">", "<", "/", "d", "i", "v", ">",
      "<", "/", "b", "o", "d", "y", ">", "<", "/", "h", "t", "m", "l", ">">>

\* <html><body>Hi</body></html>   (28 characters)
PageTooShort ==
    <<"<", "h", "t", "m", "l", ">", "<", "b", "o", "d", "y", ">", "H", "i",
      "<", "/", "b", "o", "d", "y", ">", "<", "/", "h", "t", "m", "l", ">">>

Pages == {PageExample, PageNoContent, PageTooShort}

\* '## Summary\nGood site': no restricted section
ReportPlain ==
    <<"#", "#", " ", "S", "u", "m", "m", "a", "r", "y", "\n", "G", "o", "o",
      "d", " ", "s", "i", "t", "e">>

\* '# 改善\nfix it\n- add h1\n80%': a restricted section with prose, a list
\* item and a score
ReportDetailed ==
    <<"#", " ", "u6539", "u5584", "\n", "f", "i", "x", " ", "i", "t", "\n",
      "-", " ", "a", "d", "d", " ", "h", "1", "\n", "8", "0", "%">>

\* the texts the model service may answer with
Reports == {ReportPlain, ReportDetailed}

(***************************************************************************)
(* The state.                                                              *)
(***************************************************************************)
VARIABLES
    now,                \* the clock, in seconds
    started,            \* how many requests have arrived
    filterRun,          \* a run of filterDiagnosisForAnonymous, line by line
    validateRun,        \* a run of validateUrl, check by check
    scrapeRun,          \* a run of scrapeWebpage from the extracted metadata on
    auth,               \* AuthProvider: its state and its calls of updateAuthState
    tables,             \* the pure functions of the handler on its inputs
    diagnosis_cache,    \* the rows of table diagnosis_cache, in insertion order
    diagnosis_history,  \* the rows of table diagnosis_history
    req                 \* the POST requests: position and local variables of each

vars ==
    <<now, started, filterRun, validateRun, scrapeRun, auth, tables, diagnosis_cache,
      diagnosis_history, req>>

\* the requests that may be in flight together: a slot whose request has been
\* answered takes the next request
Reqs == {1, 2}

\* how many requests arrive in all
MaxRequests == 2

\* how many requests arrive in all when every one of them is for the same page
MaxSameUrlRequests == 3

\* getCachedDiagnosis: setHours(getHours() - 24), in seconds
TTL == 24 * 60 * 60

\* the instants at which the clock is read: a start, and one second before,
\* exactly at and one second after the 24 hours that follow it
TimePoints == {0, TTL - 1, TTL, TTL + 1}

NoResponse == [status |-> 0]

\* calls, faults and startedAfter are the record of a request's run, not
\* variables of the code: the collaborator calls it has made, in order; the
\* functions that failed in it (getCachedDiagnosis, scrapeWebpage,
\* diagnoseWebsiteContent, saveDiagnosisCache, saveDiagnosisHistory); the
\* requests already answered when it arrived
InitialRequest ==
    [pc |-> "idle", trimmedUrl |-> <<>>, isAuthenticated |-> FALSE, userId |-> Null,
     twentyFourHoursAgo |-> 0, cachedResult |-> <<>>, scrapedContent |-> <<>>,
     diagnosis |-> <<>>, created_at |-> 0, response |-> NoResponse,
     calls |-> <<>>, faults |-> {}, startedAfter |-> {}]

\* the locals of filterDiagnosisForAnonymous; sources[k] is the index of the
\* input line that filteredLines[k] was pushed for
NoFilterRun ==
    [pc |-> "idle", fullResult |-> <<>>, lines |-> <<>>, i |-> 0,
     inRestrictedSection |-> FALSE, filteredLines |-> <<>>, sources |-> <<>>,
     result |-> <<>>]

\* the locals of validateUrl; host is the host the input was written with
NoValidateRun ==
    [pc |-> "idle", url |-> <<>>, host |-> <<>>, parsedUrl |-> [ok |-> FALSE],
     result |-> [ok |-> FALSE, error |-> Null]]

\* the locals of scrapeWebpage after extractMetadata
NoScrapeRun ==
    [pc |-> "idle", metadata |-> [title |-> <<>>, description |-> <<>>,
                                  headings |-> <<>>, bodyText |-> <<>>],
     analysisContent |-> <<>>, result |-> [ok |-> FALSE, error |-> Null]]

\* const defaultAuthState
defaultAuthState ==
    [user |-> Null, profile |-> Null, loading |-> TRUE, isAuthenticated |-> FALSE]

\* AuthProvider before its effect has run, and the users that have a row in
\* table user_profiles.  calls, lastApplied and events
\* are the record of the run, not variables of the code: the calls of
\* updateAuthState in the order they were started, each with its argument
\* and its position; the call that set authState last; the number of auth
\* events received
NoAuthProvider ==
    [authState |-> defaultAuthState, initAuth |-> "idle", user_profiles |-> {},
     calls |-> <<>>, lastApplied |-> 0, events |-> 0]

\* filterDiagnosisForAnonymous on the texts of the model service, computed once
FilteredReport == [fullResult \in Reports |-> filterDiagnosisForAnonymous(fullResult)]

\* validateUrl on the URLs the requests carry, computed once
ValidatedUrl == [url \in {Trim(body.url) : body \in Bodies} |-> validateUrl(url)]

\* a variant without the check of blank content
ScrapeOutcomeNoBlankCheck(html, analysisContent) ==
    IF Len(html) < MinHtmlLength
    THEN [ok |-> FALSE, error |-> "MSG_CONTENT_TOO_SHORT"]
    ELSE IF TooLong(analysisContent)
    THEN [ok |-> TRUE, content |-> Truncated(analysisContent)]
    ELSE [ok |-> TRUE, content |-> analysisContent]

\* the content scrapeWebpage returns for html, or the Error it throws
ScrapeOutcome(html, analysisContent) ==
    IF Len(html) < MinHtmlLength
    THEN [ok |-> FALSE, error |-> "MSG_CONTENT_TOO_SHORT"]
    ELSE IF TooLong(analysisContent)
    THEN [ok |-> TRUE, content |-> Truncated(analysisContent)]
    ELSE IF Trim(analysisContent) = <<>>
    THEN [ok |-> FALSE, error |-> "MSG_NO_CONTENT"]
    ELSE [ok |-> TRUE, content |-> analysisContent]

\* scrapeWebpage from the fetched html on, with analysisContent built once
ScrapeResult(html) ==
    CHOOSE result \in {ScrapeOutcome(html, analysisContent) :
                          analysisContent \in {AnalysisContent(html)}} : TRUE

\* ScrapeResult on the pages the target site serves, computed once
Scraped == [html \in Pages |-> ScrapeResult(html)]

\* analysisContent of the pages the target site serves, computed once
Summary == [html \in Pages |-> AnalysisContent(html)]

\* the tables: the handler looks its pure functions up in them
Tables ==
    [FilteredReport |-> FilteredReport, ValidatedUrl |-> ValidatedUrl, Scraped |-> Scraped,
     Summary |-> Summary]

HandlerInit ==
    /\ tables = Tables
    /\ now = 0
    /\ started = 0
    /\ diagnosis_cache = <<>>
    /\ diagnosis_history = <<>>
    /\ req = [r \in Reqs |-> InitialRequest]

Init ==
    /\ HandlerInit
    /\ auth = NoAuthProvider
    /\ filterRun = NoFilterRun
    /\ validateRun = NoValidateRun
    /\ scrapeRun = NoScrapeRun

(***************************************************************************)
(* POST /api/diagnose.  Each action is the code between two awaits: it     *)
(* takes the outcome of the call the request is waiting for, runs the      *)
(* handler to its next collaborator call or to its response.               *)
(***************************************************************************)
\* the request has called `call` and waits for it at `pc`
Issue(q, call, pc) == [q EXCEPT !.pc = pc, !.calls = Append(@, call)]

\* the response is sent; the locals of the two cache functions and the
\* scraped content are dead from here on
Respond(q, response) ==
    [q EXCEPT !.pc = "done", !.response = response, !.twentyFourHoursAgo = 0,
              !.created_at = 0, !.scrapedContent = <<>>]

\* the function `call` failed in the request (ok is FALSE) or not
Noting(q, call, ok) == IF ok THEN q ELSE [q EXCEPT !.faults = @ \cup {call}]

\* the text of a fixed sentence of the code: the whole sentence is written as
\* one character, named after what it says
Sentence(message) == <<message>>

ErrorResponse(status, error, code) == [status |-> status, error |-> error, code |-> code]

\* a variant that grants full access to every caller
SuccessResponseFullAccess(q, fullResult, cached) ==
    [status |-> 200,
     result |-> IF ~q.isAuthenticated THEN tables.FilteredReport[fullResult]
                ELSE fullResult,
     cached |-> cached,
     isAuthenticated |-> q.isAuthenticated,
     hasFullAccess |-> TRUE]

\* a variant that filters for every caller
SuccessResponseAlwaysFiltered(q, fullResult, cached) ==
    [status |-> 200,
     result |-> tables.FilteredReport[fullResult],
     cached |-> cached,
     isAuthenticated |-> q.isAuthenticated,
     hasFullAccess |-> q.isAuthenticated]

\* the content filtering and the success response
SuccessResponse(q, fullResult, cached) ==
    [status |-> 200,
     result |-> IF ~q.isAuthenticated THEN tables.FilteredReport[fullResult]
                ELSE fullResult,
     cached |-> cached,
     isAuthenticated |-> q.isAuthenticated,
     hasFullAccess |-> q.isAuthenticated]

\* Step 1: getCachedDiagnosis computes the cut-off, then awaits the query
StartCacheCheck(q) ==
    [Issue(q, "getCachedDiagnosis", "getCachedDiagnosis")
        EXCEPT !.twentyFourHoursAgo = now - TTL]

\* a variant that checks the caller before the body
BeginAuthFirst(q, body, authHeader) ==
    IF authHeader # <<>> /\ StartsWith(authHeader, BearerPrefix)
    THEN Issue([q EXCEPT !.trimmedUrl = Trim(body.url)], "getUser", "getUser")
    ELSE IF body.kind = "notObject"
    THEN Respond(q, ErrorResponse(400, Sentence("MSG_INVALID_REQUEST_FORMAT"), Null))
    ELSE IF body.kind # "url" \/ body.url = <<>>
    THEN Respond(q, ErrorResponse(400, Sentence("MSG_URL_NOT_SPECIFIED"), Null))
    ELSE IF Trim(body.url) = <<>>
    THEN Respond(q, ErrorResponse(400, Sentence("MSG_ENTER_VALID_URL"), Null))
    ELSE StartCacheCheck([q EXCEPT !.trimmedUrl = Trim(body.url)])

\* the handler from the request body to its first collaborator call
Begin(q, body, authHeader) ==
    IF body.kind = "notObject"
    THEN Respond(q, ErrorResponse(400, Sentence("MSG_INVALID_REQUEST_FORMAT"), Null))
    ELSE IF body.kind # "url" \/ body.url = <<>>
    THEN Respond(q, ErrorResponse(400, Sentence("MSG_URL_NOT_SPECIFIED"), Null))
    ELSE IF Trim(body.url) = <<>>
    THEN Respond(q, ErrorResponse(400, Sentence("MSG_ENTER_VALID_URL"), Null))
    ELSE IF authHeader # <<>> /\ StartsWith(authHeader, BearerPrefix)
    THEN Issue([q EXCEPT !.trimmedUrl = Trim(body.url)], "getUser", "getUser")
    ELSE StartCacheCheck([q EXCEPT !.trimmedUrl = Trim(body.url)])

\* a request arrives and takes slot r: the first slot never used or, when all
\* have been used, one whose request has been answered
POST(r, body, authHeader) ==
    /\ \/ req[r].pc = "idle" /\ \A s \in Reqs : s < r => req[s].pc # "idle"
       \/ req[r].pc = "done" /\ \A s \in Reqs : req[s].pc # "idle"
    /\ started' = started + 1
    /\ UNCHANGED <<auth, tables, filterRun, validateRun, scrapeRun, now, diagnosis_cache, diagnosis_history>>
    /\ req' = [s \in Reqs |->
         IF s = r
         THEN Begin([InitialRequest EXCEPT
                        !.startedAfter = {t \in Reqs \ {r} : req[t].pc = "done"}],
                    body, authHeader)
         ELSE [req[s] EXCEPT !.startedAfter = @ \ {r}]]

\* a variant that answers 401 when the token is not verified
getUserReturnsRejects(r, outcome) ==
    /\ req[r].pc = "getUser"
    /\ UNCHANGED <<auth, tables, filterRun, validateRun, scrapeRun, now, started, diagnosis_cache, diagnosis_history>>
    /\ req' = [req EXCEPT ![r] =
         IF outcome = "user"
         THEN StartCacheCheck([@ EXCEPT !.isAuthenticated = TRUE, !.userId = "u1"])
         ELSE Respond(@, ErrorResponse(401, Sentence("MSG_UNAUTHORIZED"), Null))]

\* the identity service answers auth.getUser(token): outcome "user" is a
\* verified user, "authError" an error result, "throws" an exception
getUserReturns(r, outcome) ==
    /\ req[r].pc = "getUser"
    /\ UNCHANGED <<auth, tables, filterRun, validateRun, scrapeRun, now, started, diagnosis_cache, diagnosis_history>>
    /\ req' = [req EXCEPT ![r] =
         IF outcome = "user"
         THEN StartCacheCheck([@ EXCEPT !.isAuthenticated = TRUE, !.userId = "u1"])
         ELSE StartCacheCheck(@)]

\* a variant with .gt in place of .gte
FreshRowsGt(url, twentyFourHoursAgo) ==
    {i \in 1..Len(diagnosis_cache) :
        /\ diagnosis_cache[i].url = url
        /\ diagnosis_cache[i].created_at > twentyFourHoursAgo}

\* the rows the query of getCachedDiagnosis selects: .eq('url', url)
\* .gte('created_at', twentyFourHoursAgo)
FreshRows(url, twentyFourHoursAgo) ==
    {i \in 1..Len(diagnosis_cache) :
        /\ diagnosis_cache[i].url = url
        /\ diagnosis_cache[i].created_at >= twentyFourHoursAgo}

\* a variant that takes the row inserted last
LatestRowsLastInserted(rows) == {i \in rows : \A j \in rows : j <= i}

\* .order('created_at', {ascending: false}).limit(1): a row with the latest
\* created_at (the database picks among equals)
LatestRows(rows) ==
    {i \in rows : \A j \in rows : diagnosis_cache[j].created_at <= diagnosis_cache[i].created_at}

\* scrapeWebpage up to its fetch: validateUrl, then the GET
StartScrape(q) ==
    IF tables.ValidatedUrl[q.trimmedUrl].ok
    THEN Issue(q, "fetch", "fetch")
    ELSE Respond(Noting(q, "scrapeWebpage", FALSE),
                 ErrorResponse(422, Sentence(tables.ValidatedUrl[q.trimmedUrl].error), "SCRAPE_ERROR"))

\* a variant without the return of the cache-hit branch
AfterCacheCheckWithoutReturn(q, cachedResult) ==
    IF cachedResult # <<>> THEN StartScrape([q EXCEPT !.cachedResult = cachedResult])
    ELSE StartScrape(q)

\* after the cache check: a hit or the start of a new diagnosis.
\* cachedResult is the empty string where the code has null (both are falsy)
AfterCacheCheck(q, cachedResult) ==
    IF cachedResult # <<>>
    THEN IF q.isAuthenticated /\ q.userId # Null
         THEN Issue([q EXCEPT !.cachedResult = cachedResult],
                    "saveDiagnosisHistory", "saveDiagnosisHistoryCached")
         ELSE Respond([q EXCEPT !.cachedResult = cachedResult],
                      SuccessResponse(q, cachedResult, TRUE))
    ELSE StartScrape(q)

\* a variant in which a failed lookup is not swallowed: the handler answers 500
getCachedDiagnosisReturnsRethrows(r, storeOk) ==
    /\ req[r].pc = "getCachedDiagnosis"
    /\ UNCHANGED <<auth, tables, filterRun, validateRun, scrapeRun, now, started, diagnosis_cache, diagnosis_history>>
    /\ LET rows == FreshRows(req[r].trimmedUrl, req[r].twentyFourHoursAgo)
       IN  IF ~storeOk
           THEN req' = [req EXCEPT ![r] =
                           Respond(Noting(@, "getCachedDiagnosis", storeOk),
                                   ErrorResponse(500, Sentence("MSG_INTERNAL_ERROR"),
                                                 "INTERNAL_ERROR"))]
           ELSE IF rows # {}
           THEN \E i \in LatestRows(rows) :
                   req' = [req EXCEPT ![r] = AfterCacheCheck(@, diagnosis_cache[i].result)]
           ELSE req' = [req EXCEPT ![r] = AfterCacheCheck(@, <<>>)]

\* the store answers the query of getCachedDiagnosis; storeOk is FALSE when it
\* answers with an error or the call throws: getCachedDiagnosis then returns null
getCachedDiagnosisReturns(r, storeOk) ==
    /\ req[r].pc = "getCachedDiagnosis"
    /\ UNCHANGED <<auth, tables, filterRun, validateRun, scrapeRun, now, started, diagnosis_cache, diagnosis_history>>
    /\ LET rows == FreshRows(req[r].trimmedUrl, req[r].twentyFourHoursAgo)
       IN  IF storeOk /\ rows # {}
           THEN \E i \in LatestRows(rows) :
                   req' = [req EXCEPT ![r] = AfterCacheCheck(@, diagnosis_cache[i].result)]
           ELSE req' = [req EXCEPT ![r] =
                           AfterCacheCheck(Noting(@, "getCachedDiagnosis", storeOk), <<>>)]

\* saveDiagnosisHistory on the cache-hit path returns or throws
saveDiagnosisHistoryCachedReturns(r, ok) ==
    /\ req[r].pc = "saveDiagnosisHistoryCached"
    /\ UNCHANGED <<auth, tables, filterRun, validateRun, scrapeRun, now, started, diagnosis_cache>>
    /\ diagnosis_history' =
         IF ok THEN Append(diagnosis_history,
                           [user_id |-> req[r].userId, url |-> req[r].trimmedUrl,
                            diagnosis_result |-> req[r].cachedResult])
         ELSE diagnosis_history
    /\ req' = [req EXCEPT ![r] =
         Respond(Noting(@, "saveDiagnosisHistory", ok), SuccessResponse(@, @.cachedResult, TRUE))]

\* The outcomes of the GET of scrapeWebpage.  kind "timeout" is an Error
\* named TimeoutError and "network" any other Error the fetch throws, text
\* being its message; "httpError" is a response that is not ok, with its
\* status and status text; "notHtml" a response whose Content-Type, in text,
\* does not include text/html; "page" a response with the html in text.
FetchOutcome(kind, status, text) == [kind |-> kind, status |-> status, text |-> text]

\* 'fetch failed' and 'Connection refused'; 404 Not Found; application/json
FetchErrors ==
    { FetchOutcome("timeout", <<>>,
                   <<"T", "h", "e", " ", "o", "p", "e", "r", "a", "t", "i",
                     "o", "n", " ", "w", "a", "s", " ", "a", "b", "o", "r",
                     "t", "e", "d", " ", "d", "u", "e", " ", "t", "o", " ",
                     "t", "i", "m", "e", "o", "u", "t">>),
      FetchOutcome("network", <<>>, <<"f", "e", "t", "c", "h", " ", "f", "a", "i", "l", "e", "d">>),
      FetchOutcome("network", <<>>,
                   <<"C", "o", "n", "n", "e", "c", "t", "i", "o", "n", " ",
                     "r", "e", "f", "u", "s", "e", "d">>),
      FetchOutcome("httpError", <<"4", "0", "4">>, <<"N", "o", "t", " ", "F", "o", "u", "n", "d">>),
      FetchOutcome("notHtml", <<"2", "0", "0">>,
                   <<"a", "p", "p", "l", "i", "c", "a", "t", "i", "o", "n",
                     "/", "j", "s", "o", "n">>) }

PageOutcome(html) == FetchOutcome("page", <<"2", "0", "0">>, html)

FetchOutcomes == FetchErrors \cup {PageOutcome(html) : html \in Pages}

\* 'HTTPエラー: '
HttpErrorPrefix == <<"H", "T", "T", "P", "u30A8", "u30E9", "u30FC", ":", " ">>

\* '。このサイトはアクセスできません。'
HttpErrorSuffix ==
    <<"u3002", "u3053", "u306E", "u30B5", "u30A4", "u30C8", "u306F",
      "u30A2", "u30AF", "u30BB", "u30B9", "u3067", "u304D", "u307E",
      "u305B", "u3093", "u3002">>

\* 'HTMLでないコンテンツタイプです: '
NotHtmlPrefix ==
    <<"H", "T", "M", "L", "u3067", "u306A", "u3044", "u30B3", "u30F3",
      "u30C6", "u30F3", "u30C4", "u30BF", "u30A4", "u30D7", "u3067",
      "u3059", ":", " ">>

\* '。HTMLページのURLを入力してください。'
NotHtmlSuffix ==
    <<"u3002", "H", "T", "M", "L", "u30DA", "u30FC", "u30B8", "u306E", "U",
      "R", "L", "u3092", "u5165", "u529B", "u3057", "u3066", "u304F",
      "u3060", "u3055", "u3044", "u3002">>

\* the message of the Error that reaches the catch block of scrapeWebpage
ThrownMessage(outcome) ==
    CASE outcome.kind = "httpError" ->
            HttpErrorPrefix \o outcome.status \o <<" ">> \o outcome.text \o HttpErrorSuffix
      [] outcome.kind = "notHtml" -> NotHtmlPrefix \o outcome.text \o NotHtmlSuffix
      [] OTHER -> outcome.text

\* a variant that throws on whatever it caught
FetchErrorMessageRethrown(outcome) == ThrownMessage(outcome)

\* the message of the Error that leaves scrapeWebpage when the GET fails
FetchErrorMessage(outcome) ==
    IF outcome.kind = "timeout" THEN Sentence("MSG_TIMEOUT")
    ELSE IF Includes(ThrownMessage(outcome), <<"f", "e", "t", "c", "h">>)
    THEN Sentence("MSG_NETWORK_ERROR")
    ELSE ThrownMessage(outcome)

\* a variant that goes on to the analysis, without content, when the GET fails
fetchReturnsGoesOn(r, outcome) ==
    /\ req[r].pc = "fetch"
    /\ UNCHANGED <<auth, tables, filterRun, validateRun, scrapeRun, now, started, diagnosis_cache, diagnosis_history>>
    /\ req' = [req EXCEPT ![r] =
         IF outcome.kind # "page"
         THEN Issue(Noting(@, "scrapeWebpage", FALSE), "messages.create", "diagnoseWebsiteContent")
         ELSE IF ~tables.Scraped[outcome.text].ok
         THEN Respond(Noting(@, "scrapeWebpage", FALSE),
                      ErrorResponse(422, Sentence(tables.Scraped[outcome.text].error), "SCRAPE_ERROR"))
         ELSE Issue([@ EXCEPT !.scrapedContent = tables.Scraped[outcome.text].content],
                    "messages.create", "diagnoseWebsiteContent")]

\* the GET fails (an outcome of FetchErrors) or answers with a page
fetchReturns(r, outcome) ==
    /\ req[r].pc = "fetch"
    /\ UNCHANGED <<auth, tables, filterRun, validateRun, scrapeRun, now, started, diagnosis_cache, diagnosis_history>>
    /\ req' = [req EXCEPT ![r] =
         IF outcome.kind # "page"
         THEN Respond(Noting(@, "scrapeWebpage", FALSE),
                      ErrorResponse(422, FetchErrorMessage(outcome), "SCRAPE_ERROR"))
         ELSE IF ~tables.Scraped[outcome.text].ok
         THEN Respond(Noting(@, "scrapeWebpage", FALSE),
                      ErrorResponse(422, Sentence(tables.Scraped[outcome.text].error), "SCRAPE_ERROR"))
         ELSE Issue([@ EXCEPT !.scrapedContent = tables.Scraped[outcome.text].content],
                    "messages.create", "diagnoseWebsiteContent")]

\* the ways messages.create fails, or answers without text
AnalysisErrors == {"rate_limit", "invalid_api_key", "insufficient_quota", "other", "empty"}

\* the message of the Error diagnoseWebsiteContent throws
AnalysisErrorMessage(outcome) ==
    CASE outcome = "rate_limit" -> "MSG_RATE_LIMIT"
      [] outcome = "invalid_api_key" -> "MSG_INVALID_API_KEY"
      [] outcome = "insufficient_quota" -> "MSG_INSUFFICIENT_QUOTA"
      [] OTHER -> "MSG_AI_ERROR"

\* a variant that does not await saveDiagnosisCache: the response is sent
\* while the insert is under way
StartSaveNotAwaited(q, diagnosis) ==
    Respond([q EXCEPT !.diagnosis = diagnosis, !.calls = Append(@, "saveDiagnosisCache")],
            SuccessResponse(q, diagnosis, FALSE))

\* Step 4: saveDiagnosisCache builds the row, then awaits the insert
StartSave(q, diagnosis) ==
    [Issue(q, "saveDiagnosisCache", "saveDiagnosisCache")
        EXCEPT !.diagnosis = diagnosis, !.created_at = now, !.scrapedContent = <<>>]

\* a variant that answers 503 only after the history has been saved
diagnoseWebsiteContentReturnsLate(r, outcome) ==
    /\ req[r].pc = "diagnoseWebsiteContent"
    /\ UNCHANGED <<auth, tables, filterRun, validateRun, scrapeRun, now, started, diagnosis_cache>>
    /\ diagnosis_history' =
         IF outcome \in AnalysisErrors /\ req[r].isAuthenticated
         THEN Append(diagnosis_history,
                     [user_id |-> req[r].userId, url |-> req[r].trimmedUrl,
                      diagnosis_result |-> <<>>])
         ELSE diagnosis_history
    /\ req' = [req EXCEPT ![r] =
         IF outcome \in AnalysisErrors
         THEN Respond(Noting(IF @.isAuthenticated
                             THEN [@ EXCEPT !.calls = Append(@, "saveDiagnosisHistory")]
                             ELSE @,
                             "diagnoseWebsiteContent", FALSE),
                      ErrorResponse(503, Sentence(AnalysisErrorMessage(outcome)), "AI_ERROR"))
         ELSE StartSave(@, outcome)]

\* the model service answers with a text (outcome in Reports) or fails
diagnoseWebsiteContentReturns(r, outcome) ==
    /\ req[r].pc = "diagnoseWebsiteContent"
    /\ UNCHANGED <<auth, tables, filterRun, validateRun, scrapeRun, now, started, diagnosis_cache, diagnosis_history>>
    /\ req' = [req EXCEPT ![r] =
         IF outcome \in AnalysisErrors
         THEN Respond(Noting(@, "diagnoseWebsiteContent", FALSE),
                      ErrorResponse(503, Sentence(AnalysisErrorMessage(outcome)), "AI_ERROR"))
         ELSE StartSave(@, outcome)]

\* a variant in which a failed insert is not swallowed: the handler answers 500
saveDiagnosisCacheReturnsRethrows(r, ok) ==
    /\ req[r].pc = "saveDiagnosisCache"
    /\ UNCHANGED <<auth, tables, filterRun, validateRun, scrapeRun, now, started, diagnosis_history>>
    /\ diagnosis_cache' =
         IF ok THEN Append(diagnosis_cache,
                           [url |-> req[r].trimmedUrl, result |-> req[r].diagnosis,
                            created_at |-> req[r].created_at])
         ELSE diagnosis_cache
    /\ req' = [req EXCEPT ![r] =
         IF ~ok
         THEN Respond(Noting(@, "saveDiagnosisCache", ok),
                      ErrorResponse(500, Sentence("MSG_INTERNAL_ERROR"), "INTERNAL_ERROR"))
         ELSE IF @.isAuthenticated /\ @.userId # Null
         THEN Issue(@, "saveDiagnosisHistory", "saveDiagnosisHistory")
         ELSE Respond(@, SuccessResponse(@, @.diagnosis, FALSE))]

\* a variant that stores the row under the URL as sent, not trimmed
saveDiagnosisCacheReturnsOtherKey(r, ok) ==
    /\ req[r].pc = "saveDiagnosisCache"
    /\ UNCHANGED <<auth, tables, filterRun, validateRun, scrapeRun, now, started, diagnosis_history>>
    /\ diagnosis_cache' =
         IF ok THEN Append(diagnosis_cache,
                           [url |-> UrlPadded, result |-> req[r].diagnosis,
                            created_at |-> req[r].created_at])
         ELSE diagnosis_cache
    /\ req' = [req EXCEPT ![r] =
         IF @.isAuthenticated /\ @.userId # Null
         THEN Issue(Noting(@, "saveDiagnosisCache", ok), "saveDiagnosisHistory", "saveDiagnosisHistory")
         ELSE Respond(Noting(@, "saveDiagnosisCache", ok), SuccessResponse(@, @.diagnosis, FALSE))]

\* a variant that writes no second row for a URL: the requests for one URL
\* are coalesced at the put
saveDiagnosisCacheReturnsCoalesced(r, ok) ==
    /\ req[r].pc = "saveDiagnosisCache"
    /\ UNCHANGED <<auth, tables, filterRun, validateRun, scrapeRun, now, started, diagnosis_history>>
    /\ diagnosis_cache' =
         IF ok /\ \A i \in 1..Len(diagnosis_cache) : diagnosis_cache[i].url # req[r].trimmedUrl
         THEN Append(diagnosis_cache,
                     [url |-> req[r].trimmedUrl, result |-> req[r].diagnosis,
                      created_at |-> req[r].created_at])
         ELSE diagnosis_cache
    /\ req' = [req EXCEPT ![r] =
         IF @.isAuthenticated /\ @.userId # Null
         THEN Issue(Noting(@, "saveDiagnosisCache", ok), "saveDiagnosisHistory", "saveDiagnosisHistory")
         ELSE Respond(Noting(@, "saveDiagnosisCache", ok), SuccessResponse(@, @.diagnosis, FALSE))]

\* a variant that stores the text as it is sent to the caller
saveDiagnosisCacheReturnsAsSent(r, ok) ==
    /\ req[r].pc = "saveDiagnosisCache"
    /\ UNCHANGED <<auth, tables, filterRun, validateRun, scrapeRun, now, started, diagnosis_history>>
    /\ diagnosis_cache' =
         IF ok THEN Append(diagnosis_cache,
                           [url |-> req[r].trimmedUrl,
                            result |-> SuccessResponse(req[r], req[r].diagnosis, FALSE).result,
                            created_at |-> req[r].created_at])
         ELSE diagnosis_cache
    /\ req' = [req EXCEPT ![r] =
         IF @.isAuthenticated /\ @.userId # Null
         THEN Issue(Noting(@, "saveDiagnosisCache", ok), "saveDiagnosisHistory", "saveDiagnosisHistory")
         ELSE Respond(Noting(@, "saveDiagnosisCache", ok), SuccessResponse(@, @.diagnosis, FALSE))]

\* the insert of saveDiagnosisCache succeeds, or fails and is swallowed;
\* then Step 5 and Step 6
saveDiagnosisCacheReturns(r, ok) ==
    /\ req[r].pc = "saveDiagnosisCache"
    /\ UNCHANGED <<auth, tables, filterRun, validateRun, scrapeRun, now, started, diagnosis_history>>
    /\ diagnosis_cache' =
         IF ok THEN Append(diagnosis_cache,
                           [url |-> req[r].trimmedUrl, result |-> req[r].diagnosis,
                            created_at |-> req[r].created_at])
         ELSE diagnosis_cache
    /\ req' = [req EXCEPT ![r] =
         IF @.isAuthenticated /\ @.userId # Null
         THEN Issue(Noting(@, "saveDiagnosisCache", ok), "saveDiagnosisHistory", "saveDiagnosisHistory")
         ELSE Respond(Noting(@, "saveDiagnosisCache", ok), SuccessResponse(@, @.diagnosis, FALSE))]

\* a variant in which a failed history save is not swallowed: the handler
\* answers 500
saveDiagnosisHistoryReturnsRethrows(r, ok) ==
    /\ req[r].pc = "saveDiagnosisHistory"
    /\ UNCHANGED <<auth, tables, filterRun, validateRun, scrapeRun, now, started, diagnosis_cache>>
    /\ diagnosis_history' =
         IF ok THEN Append(diagnosis_history,
                           [user_id |-> req[r].userId, url |-> req[r].trimmedUrl,
                            diagnosis_result |-> req[r].diagnosis])
         ELSE diagnosis_history
    /\ req' = [req EXCEPT ![r] =
         IF ok THEN Respond(@, SuccessResponse(@, @.diagnosis, FALSE))
         ELSE Respond(Noting(@, "saveDiagnosisHistory", ok),
                      ErrorResponse(500, Sentence("MSG_INTERNAL_ERROR"), "INTERNAL_ERROR"))]

\* saveDiagnosisHistory after a new diagnosis returns or throws
saveDiagnosisHistoryReturns(r, ok) ==
    /\ req[r].pc = "saveDiagnosisHistory"
    /\ UNCHANGED <<auth, tables, filterRun, validateRun, scrapeRun, now, started, diagnosis_cache>>
    /\ diagnosis_history' =
         IF ok THEN Append(diagnosis_history,
                           [user_id |-> req[r].userId, url |-> req[r].trimmedUrl,
                            diagnosis_result |-> req[r].diagnosis])
         ELSE diagnosis_history
    /\ req' = [req EXCEPT ![r] =
         Respond(Noting(@, "saveDiagnosisHistory", ok), SuccessResponse(@, @.diagnosis, FALSE))]

\* time passes
Tick ==
    /\ \E t \in TimePoints : t > now /\ now' = t
    /\ UNCHANGED <<auth, tables, filterRun, validateRun, scrapeRun, started, diagnosis_cache, diagnosis_history, req>>

Next ==
    \/ /\ started < MaxRequests
       /\ \E r \in Reqs, body \in Bodies, authHeader \in AuthHeaders : POST(r, body, authHeader)
    \/ \E r \in Reqs, outcome \in {"user", "authError", "throws"} : getUserReturns(r, outcome)
    \/ \E r \in Reqs, storeOk \in BOOLEAN : getCachedDiagnosisReturns(r, storeOk)
    \/ \E r \in Reqs, ok \in BOOLEAN : saveDiagnosisHistoryCachedReturns(r, ok)
    \/ \E r \in Reqs, outcome \in FetchOutcomes : fetchReturns(r, outcome)
    \/ \E r \in Reqs, outcome \in AnalysisErrors \cup Reports : diagnoseWebsiteContentReturns(r, outcome)
    \/ \E r \in Reqs, ok \in BOOLEAN : saveDiagnosisCacheReturns(r, ok)
    \/ \E r \in Reqs, ok \in BOOLEAN : saveDiagnosisHistoryReturns(r, ok)
    \/ Tick

Spec == Init /\ [][Next]_vars

\* The handler when every call of a collaborator that a request awaits
\* returns or fails in the end.
Fairness ==
    \A r \in Reqs :
        /\ WF_vars(\E outcome \in {"user", "authError", "throws"} : getUserReturns(r, outcome))
        /\ WF_vars(\E storeOk \in BOOLEAN : getCachedDiagnosisReturns(r, storeOk))
        /\ WF_vars(\E ok \in BOOLEAN : saveDiagnosisHistoryCachedReturns(r, ok))
        /\ WF_vars(\E outcome \in FetchOutcomes : fetchReturns(r, outcome))
        /\ WF_vars(\E outcome \in AnalysisErrors \cup Reports :
                      diagnoseWebsiteContentReturns(r, outcome))
        /\ WF_vars(\E ok \in BOOLEAN : saveDiagnosisCacheReturns(r, ok))
        /\ WF_vars(\E ok \in BOOLEAN : saveDiagnosisHistoryReturns(r, ok))

\* the steps of the handler at one instant: the clock has no part in the
\* progress of a request
NextFair ==
    \/ /\ started < MaxRequests
       /\ \E r \in Reqs, body \in Bodies, authHeader \in AuthHeaders : POST(r, body, authHeader)
    \/ \E r \in Reqs, outcome \in {"user", "authError", "throws"} : getUserReturns(r, outcome)
    \/ \E r \in Reqs, storeOk \in BOOLEAN : getCachedDiagnosisReturns(r, storeOk)
    \/ \E r \in Reqs, ok \in BOOLEAN : saveDiagnosisHistoryCachedReturns(r, ok)
    \/ \E r \in Reqs, outcome \in FetchOutcomes : fetchReturns(r, outcome)
    \/ \E r \in Reqs, outcome \in AnalysisErrors \cup Reports : diagnoseWebsiteContentReturns(r, outcome)
    \/ \E r \in Reqs, ok \in BOOLEAN : saveDiagnosisCacheReturns(r, ok)
    \/ \E r \in Reqs, ok \in BOOLEAN : saveDiagnosisHistoryReturns(r, ok)

SpecFair == Init /\ [][NextFair]_vars /\ Fairness

\* The same handler when every request is for the one page and the page, the
\* model service and the store all answer: more requests fit, so that a
\* request can follow two that ran together.
SameUrlBodies == {body \in Bodies : body.kind = "url" /\ Trim(body.url) = UrlExample}

NextSameUrl ==
    \/ /\ started < MaxSameUrlRequests
       /\ \E r \in Reqs, body \in SameUrlBodies, authHeader \in AuthHeaders : POST(r, body, authHeader)
    \/ \E r \in Reqs, outcome \in {"user", "authError"} : getUserReturns(r, outcome)
    \/ \E r \in Reqs : getCachedDiagnosisReturns(r, TRUE)
    \/ \E r \in Reqs : saveDiagnosisHistoryCachedReturns(r, TRUE)
    \/ \E r \in Reqs : fetchReturns(r, PageOutcome(PageExample))
    \/ \E r \in Reqs, outcome \in Reports : diagnoseWebsiteContentReturns(r, outcome)
    \/ \E r \in Reqs : saveDiagnosisCacheReturns(r, TRUE)
    \/ \E r \in Reqs : saveDiagnosisHistoryReturns(r, TRUE)
    \/ Tick

SpecSameUrl == Init /\ [][NextSameUrl]_vars

(***************************************************************************)
(* filterDiagnosisForAnonymous on its own, one pass of its loop per step,  *)
(* over every report of up to MaxLines lines drawn from SampleLines.       *)
(***************************************************************************)

\* the longest report, in lines
MaxLines == 4

\* '# a', '## 改善', '# 具体', 'pq', '', ' ', '- ab', a list item of 24
\* characters, '* cd', '9%'
SampleLines ==
    { <<"#", " ", "a">>,
      <<"#", "#", " ", "u6539", "u5584">>,
      <<"#", " ", "u5177", "u4F53">>,
      <<"p", "q">>,
      <<>>,
      <<" ">>,
      <<"-", " ", "a", "b">>,
      <<"-", " ", "a", "b", "c", "d", "e", "f", "g", "h", "i", "j", "k", "l",
        "m", "n", "o", "p", "q", "r", "s", "t", "u", "v">>,
      <<"*", " ", "c", "d">>,
      <<"9", "%">> }

FilterInputs ==
    { Join(ls) : ls \in UNION { [1..n -> SampleLines] : n \in 1..MaxLines } }

FilterInit ==
    /\ HandlerInit
    /\ auth = NoAuthProvider
    /\ validateRun = NoValidateRun
    /\ scrapeRun = NoScrapeRun
    /\ \E fullResult \in FilterInputs :
          filterRun = [NoFilterRun EXCEPT !.pc = "called", !.fullResult = fullResult]

\* const lines = fullResult.split('\n'), and the two initialisations
FilterStart ==
    /\ filterRun.pc = "called"
    /\ filterRun' = [filterRun EXCEPT !.pc = "loop", !.lines = Split(filterRun.fullResult), !.i = 1]
    /\ UNCHANGED <<auth, tables, validateRun, scrapeRun, now, started, diagnosis_cache, diagnosis_history, req>>

\* one pass of the loop body
FilterStep ==
    /\ filterRun.pc = "loop"
    /\ filterRun.i <= Len(filterRun.lines)
    /\ LET line == filterRun.lines[filterRun.i]
           pushed == FilterLine(filterRun.inRestrictedSection, line)
       IN  filterRun' = [filterRun EXCEPT
               !.i = @ + 1,
               !.inRestrictedSection = NextRestricted(@, line),
               !.filteredLines = @ \o pushed,
               !.sources = @ \o [k \in 1..Len(pushed) |-> filterRun.i]]
    /\ UNCHANGED <<auth, tables, validateRun, scrapeRun, now, started, diagnosis_cache, diagnosis_history, req>>

\* return filteredLines.join('\n')
FilterReturn ==
    /\ filterRun.pc = "loop"
    /\ filterRun.i > Len(filterRun.lines)
    /\ filterRun' = [filterRun EXCEPT !.pc = "done", !.result = Join(filterRun.filteredLines)]
    /\ UNCHANGED <<auth, tables, validateRun, scrapeRun, now, started, diagnosis_cache, diagnosis_history, req>>

FilterNext == FilterStart \/ FilterStep \/ FilterReturn

FilterSpec == FilterInit /\ [][FilterNext]_vars

(***************************************************************************)
(* validateUrl on its own, one check per step, over URLs written as a      *)
(* scheme, a host, a port and a rest.                                      *)
(***************************************************************************)

\* 'http://', 'https://', 'ftp://' and no scheme at all
ValidateSchemes ==
    { <<"h", "t", "t", "p", ":", "/", "/">>,
      <<"h", "t", "t", "p", "s", ":", "/", "/">>,
      <<"f", "t", "p", ":", "/", "/">>,
      <<>> }

\* hosts in the ranges and names PRIVATE_IP_PATTERNS and the localhost check
\* are written for: 10.0.0.1, 172.16.0.1, 192.168.1.1, 127.0.0.1,
\* 169.254.1.1, [::1], [fc00::1], [fe80::1], localhost, app.localhost,
\* 10.example.com
ValidatePrivateHosts ==
    { <<"1", "0", ".", "0", ".", "0", ".", "1">>,
      <<"1", "7", "2", ".", "1", "6", ".", "0", ".", "1">>,
      <<"1", "9", "2", ".", "1", "6", "8", ".", "1", ".", "1">>,
      <<"1", "2", "7", ".", "0", ".", "0", ".", "1">>,
      <<"1", "6", "9", ".", "2", "5", "4", ".", "1", ".", "1">>,
      <<"[", ":", ":", "1", "]">>,
      <<"[", "f", "c", "0", "0", ":", ":", "1", "]">>,
      <<"[", "f", "e", "8", "0", ":", ":", "1", "]">>,
      <<"l", "o", "c", "a", "l", "h", "o", "s", "t">>,
      <<"a", "p", "p", ".", "l", "o", "c", "a", "l", "h", "o", "s", "t">>,
      <<"1", "0", ".", "e", "x", "a", "m", "p", "l", "e", ".", "c", "o",
        "m">> }

\* example.com, www.example.co.jp, 8.8.8.8
ValidatePublicHosts ==
    { <<"e", "x", "a", "m", "p", "l", "e", ".", "c", "o", "m">>,
      <<"w", "w", "w", ".", "e", "x", "a", "m", "p", "l", "e", ".", "c",
        "o", ".", "j", "p">>,
      <<"8", ".", "8", ".", "8", ".", "8">> }

\* no port, ':8080'
ValidatePorts ==
    { <<>>,
      <<":", "8", "0", "8", "0">> }

\* nothing, '/', '/a/b', '/?q=1'
ValidateRests ==
    { <<>>,
      <<"/">>,
      <<"/", "a", "/", "b">>,
      <<"/", "?", "q", "=", "1">> }

ValidateInit ==
    /\ HandlerInit
    /\ auth = NoAuthProvider
    /\ filterRun = NoFilterRun
    /\ scrapeRun = NoScrapeRun
    /\ \E scheme \in ValidateSchemes, host \in ValidatePrivateHosts \cup ValidatePublicHosts,
          port \in ValidatePorts, rest \in ValidateRests :
          validateRun = [NoValidateRun EXCEPT !.pc = "called", !.host = host,
                                              !.url = scheme \o host \o port \o rest]

\* validateUrl throws: the run ends with the message of the Error
ValidateThrows(error) ==
    validateRun' = [validateRun EXCEPT !.pc = "done", !.result = [ok |-> FALSE, error |-> error]]

\* parsedUrl = new URL(url)
ValidateParse ==
    /\ validateRun.pc = "called"
    /\ LET parsedUrl == ParseUrl(validateRun.url)
       IN  IF ~parsedUrl.ok THEN ValidateThrows("MSG_INVALID_URL_FORMAT")
           ELSE validateRun' = [validateRun EXCEPT !.pc = "protocol", !.parsedUrl = parsedUrl]
    /\ UNCHANGED <<auth, tables, filterRun, scrapeRun, now, started, diagnosis_cache, diagnosis_history, req>>

\* the protocol check
ValidateProtocol ==
    /\ validateRun.pc = "protocol"
    /\ IF validateRun.parsedUrl.protocol \notin
             {<<"h", "t", "t", "p", ":">>, <<"h", "t", "t", "p", "s", ":">>}
       THEN ValidateThrows("MSG_UNSUPPORTED_PROTOCOL")
       ELSE validateRun' = [validateRun EXCEPT !.pc = "pattern"]
    /\ UNCHANGED <<auth, tables, filterRun, scrapeRun, now, started, diagnosis_cache, diagnosis_history, req>>

\* the test of URL_VALIDATION_PATTERN on url
ValidatePattern ==
    /\ validateRun.pc = "pattern"
    /\ IF ~URL_VALIDATION_PATTERN(validateRun.url)
       THEN ValidateThrows("MSG_INVALID_DOMAIN")
       ELSE validateRun' = [validateRun EXCEPT !.pc = "privateIp"]
    /\ UNCHANGED <<auth, tables, filterRun, scrapeRun, now, started, diagnosis_cache, diagnosis_history, req>>

\* the test of PRIVATE_IP_PATTERNS on parsedUrl.hostname
ValidatePrivateIp ==
    /\ validateRun.pc = "privateIp"
    /\ IF PRIVATE_IP_PATTERNS(validateRun.parsedUrl.hostname)
       THEN ValidateThrows("MSG_PRIVATE_IP")
       ELSE validateRun' = [validateRun EXCEPT !.pc = "localhost"]
    /\ UNCHANGED <<auth, tables, filterRun, scrapeRun, now, started, diagnosis_cache, diagnosis_history, req>>

\* the localhost check, and the return
ValidateLocalhost ==
    /\ validateRun.pc = "localhost"
    /\ IF IsLocalhost(validateRun.parsedUrl.hostname)
       THEN ValidateThrows("MSG_LOCALHOST")
       ELSE validateRun' = [validateRun EXCEPT
               !.pc = "done", !.result = [ok |-> TRUE, url |-> validateRun.parsedUrl]]
    /\ UNCHANGED <<auth, tables, filterRun, scrapeRun, now, started, diagnosis_cache, diagnosis_history, req>>

ValidateNext ==
    \/ ValidateParse
    \/ ValidateProtocol
    \/ ValidatePattern
    \/ ValidatePrivateIp
    \/ ValidateLocalhost

ValidateSpec == ValidateInit /\ [][ValidateNext]_vars

(***************************************************************************)
(* AuthProvider (contexts/AuthContext.tsx): the effect that loads the      *)
(* session and listens to the auth events, and updateAuthState.            *)
(***************************************************************************)

\* how many auth events the listener receives
MaxAuthEvents == 3

Users == {"u1", "u2"}

\* the row of user_profiles of a user
Profile(user) == [id |-> user]

\* updateAuthState(user) up to its first await: without user the state is
\* set and the call returns, with a user the call awaits getUserProfile
updateAuthState(a, user) ==
    IF user = Null
    THEN [a EXCEPT !.authState = [user |-> Null, profile |-> Null, loading |-> FALSE,
                                  isAuthenticated |-> FALSE],
                   !.calls = Append(@, [user |-> Null, pc |-> "done"]),
                   !.lastApplied = Len(a.calls) + 1]
    ELSE [a EXCEPT !.calls = Append(@, [user |-> user, pc |-> "getUserProfile"])]

\* call c of updateAuthState sets the state and returns
SetAuthState(a, c, profile) ==
    [a EXCEPT !.authState = [user |-> a.calls[c].user, profile |-> profile, loading |-> FALSE,
                             isAuthenticated |-> TRUE],
              !.calls[c].pc = "done",
              !.lastApplied = c]

AuthInit ==
    /\ HandlerInit
    /\ filterRun = NoFilterRun
    /\ validateRun = NoValidateRun
    /\ scrapeRun = NoScrapeRun
    /\ \E rows \in SUBSET Users :
          auth = [NoAuthProvider EXCEPT !.initAuth = "getSession", !.user_profiles = rows]

\* initAuth: getSession answers with the session of a user, with none, or throws
getSessionReturns(outcome) ==
    /\ auth.initAuth = "getSession"
    /\ auth' = IF outcome = "throws"
               THEN [auth EXCEPT !.initAuth = "done", !.authState.loading = FALSE]
               ELSE [updateAuthState(auth, outcome) EXCEPT !.initAuth = "done"]
    /\ UNCHANGED <<tables, filterRun, validateRun, scrapeRun, now, started, diagnosis_cache, diagnosis_history, req>>

\* the listener of onAuthStateChange receives an event with the session of a
\* user, or with none
onAuthStateChange(user) ==
    /\ auth.events < MaxAuthEvents
    /\ auth' = [updateAuthState(auth, user) EXCEPT !.events = @ + 1]
    /\ UNCHANGED <<tables, filterRun, validateRun, scrapeRun, now, started, diagnosis_cache, diagnosis_history, req>>

\* getUserProfile answers call c, with the profile or with null (ok), or throws
getUserProfileReturns(c, ok) ==
    /\ c \in 1..Len(auth.calls)
    /\ auth.calls[c].pc = "getUserProfile"
    /\ auth' = IF ~ok THEN SetAuthState(auth, c, Null)
               ELSE IF auth.calls[c].user \in auth.user_profiles
               THEN SetAuthState(auth, c, Profile(auth.calls[c].user))
               ELSE [auth EXCEPT !.calls[c].pc = "createOrUpdateUserProfile"]
    /\ UNCHANGED <<tables, filterRun, validateRun, scrapeRun, now, started, diagnosis_cache, diagnosis_history, req>>

\* createOrUpdateUserProfile answers call c with the row it has written, or
\* throws
createOrUpdateUserProfileReturns(c, ok) ==
    /\ c \in 1..Len(auth.calls)
    /\ auth.calls[c].pc = "createOrUpdateUserProfile"
    /\ auth' = IF ok
               THEN [SetAuthState(auth, c, Profile(auth.calls[c].user))
                        EXCEPT !.user_profiles = @ \cup {auth.calls[c].user}]
               ELSE SetAuthState(auth, c, Null)
    /\ UNCHANGED <<tables, filterRun, validateRun, scrapeRun, now, started, diagnosis_cache, diagnosis_history, req>>

AuthNext ==
    \/ \E outcome \in Users \cup {Null, "throws"} : getSessionReturns(outcome)
    \/ \E user \in Users \cup {Null} : onAuthStateChange(user)
    \/ \E c \in 1..(MaxAuthEvents + 1), ok \in BOOLEAN : getUserProfileReturns(c, ok)
    \/ \E c \in 1..(MaxAuthEvents + 1), ok \in BOOLEAN : createOrUpdateUserProfileReturns(c, ok)

AuthSpec == AuthInit /\ [][AuthNext]_vars

(***************************************************************************)
(* scrapeWebpage from the extracted metadata on, one step for each         *)
(* statement.                                                              *)
(***************************************************************************)

\* how far the body texts of the runs lie from the cap, on either side
MaxMargin == 32

\* n characters of text
TextOfLength(n) == [i \in 1..n |-> "a"]

ScrapeTitles == { <<>>, <<"T">> }

ScrapeDescriptions == { <<>>, <<"d">> }

ScrapeHeadings == { <<>>, <<(<<"h">>)>>, <<(<<"h">>), (<<"k">>)>> }

ScrapeBodyTexts ==
    {<<>>} \cup {TextOfLength(n) : n \in (maxLength - MaxMargin)..(maxLength + MaxMargin)}

ScrapeInit ==
    /\ HandlerInit
    /\ auth = NoAuthProvider
    /\ filterRun = NoFilterRun
    /\ validateRun = NoValidateRun
    /\ \E title \in ScrapeTitles, description \in ScrapeDescriptions,
          headings \in ScrapeHeadings, bodyText \in ScrapeBodyTexts :
          scrapeRun = [NoScrapeRun EXCEPT
              !.pc = "extracted",
              !.metadata = [title |-> title, description |-> description,
                            headings |-> headings, bodyText |-> bodyText]]

\* analysisContent = [...].filter(Boolean).join('\n\n')
ScrapeBuild ==
    /\ scrapeRun.pc = "extracted"
    /\ scrapeRun' = [scrapeRun EXCEPT !.pc = "built",
                                      !.analysisContent = LabelledSections(scrapeRun.metadata)]
    /\ UNCHANGED <<auth, tables, filterRun, validateRun, now, started, diagnosis_cache, diagnosis_history, req>>

\* if (analysisContent.length > maxLength) return the truncated content
ScrapeCap ==
    /\ scrapeRun.pc = "built"
    /\ IF TooLong(scrapeRun.analysisContent)
       THEN scrapeRun' = [scrapeRun EXCEPT
               !.pc = "done",
               !.result = [ok |-> TRUE, content |-> Truncated(scrapeRun.analysisContent)]]
       ELSE scrapeRun' = [scrapeRun EXCEPT !.pc = "blank"]
    /\ UNCHANGED <<auth, tables, filterRun, validateRun, now, started, diagnosis_cache, diagnosis_history, req>>

\* if (!analysisContent.trim()) throw; return analysisContent
ScrapeBlank ==
    /\ scrapeRun.pc = "blank"
    /\ IF Trim(scrapeRun.analysisContent) = <<>>
       THEN scrapeRun' = [scrapeRun EXCEPT
               !.pc = "done", !.result = [ok |-> FALSE, error |-> "MSG_NO_CONTENT"]]
       ELSE scrapeRun' = [scrapeRun EXCEPT
               !.pc = "done", !.result = [ok |-> TRUE, content |-> scrapeRun.analysisContent]]
    /\ UNCHANGED <<auth, tables, filterRun, validateRun, now, started, diagnosis_cache, diagnosis_history, req>>

ScrapeNext ==
    \/ ScrapeBuild
    \/ ScrapeCap
    \/ ScrapeBlank

ScrapeSpec == ScrapeInit /\ [][ScrapeNext]_vars

(***************************************************************************)
(* Properties of the handler.                                              *)
(***************************************************************************)
Done(r) == req[r].pc = "done"

\* the request has made the call
Made(r, call) == \E k \in 1..Len(req[r].calls) : req[r].calls[k] = call

\* the rows of the cache table under a URL
RowsFor(url) == {i \in 1..Len(diagnosis_cache) : diagnosis_cache[i].url = url}

\* the success response with the full report for an authenticated caller and
\* the filtered one for any other
ExpectedSuccess(r, report, cached) ==
    [status |-> 200,
     result |-> IF req[r].isAuthenticated THEN report
                ELSE filterDiagnosisForAnonymous(report),
     cached |-> cached,
     isAuthenticated |-> req[r].isAuthenticated,
     hasFullAccess |-> req[r].isAuthenticated]

\* C1: a request whose cache lookup returned a record answers with
\* cached: true and that record's report, filtered exactly when the caller is
\* not authenticated, and makes no page fetch, no analysis call and no cache
\* write.
C1_CacheHitShortCircuits ==
    \A r \in Reqs :
        req[r].cachedResult # <<>> =>
            /\ \E i \in RowsFor(req[r].trimmedUrl) :
                    diagnosis_cache[i].result = req[r].cachedResult
            /\ ~Made(r, "fetch")
            /\ ~Made(r, "messages.create")
            /\ ~Made(r, "saveDiagnosisCache")
            /\ req[r].pc \in {"saveDiagnosisHistoryCached", "done"}
            /\ Done(r) => req[r].response = ExpectedSuccess(r, req[r].cachedResult, TRUE)

\* an anonymous caller has been answered from the cache with a report that the
\* filter changes
C1_Witness ==
    \E r \in Reqs :
        /\ Done(r)
        /\ ~req[r].isAuthenticated
        /\ req[r].cachedResult = ReportDetailed
        /\ req[r].response.status = 200
        /\ req[r].response.cached
        /\ req[r].response.result # ReportDetailed

\* the request ran the pipeline to its end: a report came back from the analysis
MissSuccess(r) == Done(r) /\ req[r].diagnosis # <<>>

\* the cache lookup of q is answered in this step
LookupAnswered(q) == req[q].pc = "getCachedDiagnosis" /\ req'[q].pc # "getCachedDiagnosis"

\* q arrived after r had been answered; r ran the pipeline and stored its
\* report for the URL q asks about; that record is within q's 24 hours
FollowsStoredMiss(q, r) ==
    /\ q # r
    /\ r \in req[q].startedAfter
    /\ MissSuccess(r)
    /\ "saveDiagnosisCache" \notin req[r].faults
    /\ req[r].trimmedUrl = req[q].trimmedUrl
    /\ \E i \in RowsFor(req[q].trimmedUrl) :
          /\ diagnosis_cache[i].result = req[r].diagnosis
          /\ diagnosis_cache[i].created_at >= req[q].twentyFourHoursAgo

\* after a successful run of the pipeline with a working store, the table
\* holds a row with the trimmed URL and the report just returned
StoredAfterMiss ==
    \A r \in Reqs :
        MissSuccess(r) /\ "saveDiagnosisCache" \notin req[r].faults =>
            /\ req[r].response = ExpectedSuccess(r, req[r].diagnosis, FALSE)
            /\ \E i \in RowsFor(req[r].trimmedUrl) :
                    diagnosis_cache[i].result = req[r].diagnosis

\* the answer of q, once its lookup has returned `report`: no analysis call,
\* cached: true and the report
AnsweredFromCache(q, report) ==
    /\ req'[q].cachedResult = report
    /\ req'[q].pc \in {"saveDiagnosisHistoryCached", "done"}
    /\ \A k \in 1..Len(req'[q].calls) : req'[q].calls[k] # "messages.create"
    /\ req'[q].pc = "done" =>
          /\ req'[q].response.status = 200
          /\ req'[q].response.cached
          /\ req'[q].response.result =
                IF req'[q].isAuthenticated THEN report
                ELSE filterDiagnosisForAnonymous(report)

\* C2 as stated: after a successful cache-miss request for u with a working
\* store the table holds its report under u, and every later request for u
\* within the 24 hours is answered from the cache with that same report.
C2_LaterRequestGetsThatReport ==
    /\ [] StoredAfterMiss
    /\ [][\A q \in Reqs, r \in Reqs :
            LookupAnswered(q) /\ FollowsStoredMiss(q, r) =>
                AnsweredFromCache(q, req[r].diagnosis)]_vars

\* C2, amended: after a successful cache-miss request for u with a working
\* store the table holds its report under u, and every later request for u
\* within the 24 hours is answered from the cache, without an analysis call,
\* with the report of a record for u that no other fresh record for u is
\* newer than: that same report unless another request has stored a record
\* for u at the same or a later time.
C2_LaterRequestGetsFreshestReport ==
    /\ [] StoredAfterMiss
    /\ [][\A q \in Reqs, r \in Reqs :
            LookupAnswered(q) /\ FollowsStoredMiss(q, r) =>
                \E i \in LatestRows(FreshRows(req[q].trimmedUrl, req[q].twentyFourHoursAgo)) :
                    /\ AnsweredFromCache(q, diagnosis_cache[i].result)
                    /\ \/ diagnosis_cache[i].result = req[r].diagnosis
                       \/ \E j \in RowsFor(req[q].trimmedUrl) :
                            /\ diagnosis_cache[j].result = req[r].diagnosis
                            /\ diagnosis_cache[j].created_at <= diagnosis_cache[i].created_at
                            /\ j # i]_vars

\* a request that arrived after a successful cache-miss request for the same
\* URL has been answered from the cache with that request's report
C2_Witness ==
    \E q \in Reqs, r \in Reqs :
        /\ q # r
        /\ r \in req[q].startedAfter
        /\ MissSuccess(r)
        /\ req[r].trimmedUrl = req[q].trimmedUrl
        /\ Done(q)
        /\ req[q].response.status = 200
        /\ req[q].response.cached
        /\ req[q].cachedResult = req[r].diagnosis
        /\ Len(diagnosis_cache) > 1

C4_PrivateUrlRejectedWithoutCalls ==
    \A r \in Reqs :
        Done(r) /\ req[r].trimmedUrl = UrlPrivate =>
            /\ req[r].response.status = 400
            /\ req[r].calls = <<>>

\* C5 as stated: whenever the direct fetch of a request has failed, the
\* request has called the fallback fetch service.
C5_FallbackInvokedOnFetchFailure ==
    \A r \in Reqs :
        Made(r, "fetch") /\ "scrapeWebpage" \in req[r].faults =>
            Made(r, "fetchRendered")

C7_AnalysisFailure ==
    \A r \in Reqs :
        /\ "diagnoseWebsiteContent" \in req[r].faults =>
              /\ Done(r)
              /\ Made(r, "fetch")
              /\ Made(r, "messages.create")
              /\ "scrapeWebpage" \notin req[r].faults
              /\ req[r].response.status = 503
              /\ req[r].response.code = "AI_ERROR"
              /\ req[r].response.error \in {Sentence(AnalysisErrorMessage(o)) : o \in AnalysisErrors}
              /\ ~Made(r, "saveDiagnosisCache")
              /\ ~Made(r, "saveDiagnosisHistory")
        /\ Done(r) /\ req[r].response.status = 503 => "diagnoseWebsiteContent" \in req[r].faults
        /\ \A i \in 1..Len(diagnosis_history) :
              diagnosis_history[i].diagnosis_result # <<>>

\* an authenticated caller's analysis has hit the rate limit and the request
\* is answered 503 with the retry-later message
C7_Witness ==
    \E r \in Reqs :
        /\ Done(r)
        /\ req[r].isAuthenticated
        /\ "diagnoseWebsiteContent" \in req[r].faults
        /\ req[r].response = ErrorResponse(503, Sentence("MSG_RATE_LIMIT"), "AI_ERROR")

\* C8: the result sent to an authenticated caller is the full report: the
\* stored record on the cache-hit path, the text of the analysis on the
\* cache-miss path.
C8_AuthorizedVerbatim ==
    \A r \in Reqs :
        Done(r) /\ req[r].isAuthenticated /\ req[r].response.status = 200 =>
            /\ req[r].response.hasFullAccess
            /\ IF req[r].response.cached
               THEN /\ req[r].cachedResult # <<>>
                    /\ req[r].response.result = req[r].cachedResult
                    /\ \E i \in RowsFor(req[r].trimmedUrl) :
                          diagnosis_cache[i].result = req[r].response.result
               ELSE /\ req[r].diagnosis # <<>>
                    /\ req[r].response.result = req[r].diagnosis

\* two authenticated callers have been answered with a report the filter
\* would change, one from the analysis and one from the cache
C8_Witness ==
    \E r \in Reqs, q \in Reqs :
        /\ Done(r) /\ Done(q)
        /\ req[r].isAuthenticated /\ req[q].isAuthenticated
        /\ req[r].response.status = 200 /\ req[q].response.status = 200
        /\ ~req[r].response.cached /\ req[q].response.cached
        /\ req[r].response.result = ReportDetailed
        /\ req[q].response.result = ReportDetailed
        /\ filterDiagnosisForAnonymous(ReportDetailed) # ReportDetailed

(***************************************************************************)
(* Properties of filterDiagnosisForAnonymous.                              *)
(***************************************************************************)
\* line i of the report lies in a restricted section: the nearest heading
\* line above it holds one of the keywords
InRestrictedSectionAt(lines, i) ==
    LET above == {k \in 1..(i - 1) : IsHeadingLine(lines[k])}
    IN  /\ above # {}
        /\ HeadingRestricts(lines[CHOOSE k \in above : \A j \in above : j <= k])

\* line i is one the filter is to hide: in a restricted section, no heading
\* and no score line
HiddenAt(lines, i) ==
    /\ InRestrictedSectionAt(lines, i)
    /\ ~IsHeadingLine(lines[i])
    /\ ~IsScoreLine(lines[i])

\* a masking placeholder: the fixed line, or a line that ends with the marker
IsPlaceholder(line) == line = MaskLine \/ EndsWith(line, MaskSuffix)

\* C9 as stated: every line of the output is the input line it was written
\* for (a heading line, a score line or a line outside a restricted section)
\* or a masking placeholder, and no hidden line of a restricted section
\* appears in the output with its text intact.
C9_NoRestrictedLineIntact ==
    \A k \in 1..Len(filterRun.filteredLines) :
        LET i == filterRun.sources[k]
            line == filterRun.lines[i]
            out == filterRun.filteredLines[k]
        IN  /\ \/ out = line /\ ~HiddenAt(filterRun.lines, i)
               \/ IsPlaceholder(out)
            /\ HiddenAt(filterRun.lines, i) => ~StartsWith(out, line)

\* C9, amended: the output lines are written for input lines in order, at
\* most one each.  A heading line, a score line and a line outside a
\* restricted section are written as they are.  Of the other lines, the blank
\* ones are dropped, a list item is written as its first 20 characters (all
\* of it when it has no more) followed by '... ●●●●●', and any other line is
\* written as the fixed placeholder, so that only list items of a restricted
\* section stay readable, whole when they have at most 20 characters.
C9_RedactionMasking ==
    LET lines == filterRun.lines
        out == filterRun.filteredLines
        src == filterRun.sources
    IN  /\ Len(src) = Len(out)
        /\ \A k \in 1..Len(out) : src[k] \in 1..(filterRun.i - 1)
        /\ \A k \in 1..(Len(out) - 1) : src[k] < src[k + 1]
        /\ \A i \in 1..(filterRun.i - 1) :
              (\E k \in 1..Len(out) : src[k] = i) <=>
                  ~(HiddenAt(lines, i) /\ Trim(lines[i]) = <<>>)
        /\ \A k \in 1..Len(out) :
              LET line == lines[src[k]]
              IN  IF ~HiddenAt(lines, src[k]) THEN out[k] = line
                  ELSE IF IsListLine(line)
                       THEN /\ out[k] = SubSeq(line, 1, Min(Len(line), ListPrefixLen)) \o MaskSuffix
                            /\ StartsWith(out[k], line) <=> Len(line) <= ListPrefixLen
                  ELSE /\ out[k] = MaskLine
                       /\ ~StartsWith(out[k], line)
        /\ filterRun.pc = "done" =>
              /\ filterRun.result = Join(out)
              /\ filterRun.result = filterDiagnosisForAnonymous(filterRun.fullResult)

\* the filter has run on a restricted section of a short list item, a line
\* of prose and a blank line: the prose is masked, the blank line dropped and
\* the list item readable in full
C9_Witness ==
    /\ filterRun.pc = "done"
    /\ Len(filterRun.lines) = 4
    /\ HeadingRestricts(filterRun.lines[1])
    /\ filterRun.lines[2] = <<"-", " ", "a", "b">>
    /\ filterRun.lines[3] = <<"p", "q">>
    /\ filterRun.lines[4] = <<>>
    /\ filterRun.filteredLines =
          <<filterRun.lines[1], <<"-", " ", "a", "b">> \o MaskSuffix, MaskLine>>

(***************************************************************************)
(* Properties of the cache's 24 hours.                                     *)
(***************************************************************************)
\* the cache lookup of r is started in this step
LookupStarted(r) == req[r].pc # "getCachedDiagnosis" /\ req'[r].pc = "getCachedDiagnosis"

\* C10: the cut-off of a lookup is 24 hours before the time it starts.  The
\* lookup returns a record only if one for the URL is no older than 24 hours
\* at that time, and returns one whenever there is such a record and the
\* store answers; when every record for the URL is older the request goes on
\* to fetch the page; a lookup leaves the table as it is.
C10_FreshnessBoundary ==
    [][\A r \in Reqs :
        /\ LookupStarted(r) => req'[r].twentyFourHoursAgo = now - TTL
        /\ LookupAnswered(r) =>
              LET calledAt == req[r].twentyFourHoursAgo + TTL
                  fresh == {i \in RowsFor(req[r].trimmedUrl) :
                               calledAt - diagnosis_cache[i].created_at <= TTL}
              IN  /\ req'[r].cachedResult # <<>> =>
                        \E i \in fresh : diagnosis_cache[i].result = req'[r].cachedResult
                  /\ fresh # {} /\ "getCachedDiagnosis" \notin req'[r].faults =>
                        req'[r].cachedResult # <<>>
                  /\ fresh = {} /\ RowsFor(req[r].trimmedUrl) # {} =>
                        /\ req'[r].cachedResult = <<>>
                        /\ req'[r].pc = "fetch"
                  /\ diagnosis_cache' = diagnosis_cache]_vars

\* with a record created at time 0 stored, a lookup started 24 hours less a
\* second later has returned it, and one started 24 hours and a second later
\* has not, the store answering: that request has gone on to fetch the page
C10_Witness ==
    \E r \in Reqs, q \in Reqs :
        /\ req[r].pc = "saveDiagnosisHistoryCached"
        /\ req[r].twentyFourHoursAgo + TTL = TTL - 1
        /\ req[q].pc = "fetch"
        /\ req[q].twentyFourHoursAgo + TTL = TTL + 1
        /\ req[q].faults = {}
        /\ req[q].trimmedUrl = req[r].trimmedUrl
        /\ Len(diagnosis_cache) = 1
        /\ diagnosis_cache[1].url = req[q].trimmedUrl
        /\ diagnosis_cache[1].created_at = 0

(***************************************************************************)
(* Properties of the handler's checks of the body and of the caller.       *)
(***************************************************************************)
\* the body is no JSON object, or its url is missing, no string, empty or
\* blank
BodyInvalid(body) == body.kind # "url" \/ Trim(body.url) = <<>>

\* the three sentences of the 400 responses
BodyErrors ==
    {Sentence("MSG_INVALID_REQUEST_FORMAT"), Sentence("MSG_URL_NOT_SPECIFIED"),
     Sentence("MSG_ENTER_VALID_URL")}

\* C13: a request with an invalid body is answered with status 400 in the
\* step in which it arrives, having made no call, and that step leaves the
\* two tables as they are; a request answered with 400 has made no call.
C13_InvalidBodyFailsFast ==
    /\ [](\A r \in Reqs :
            Done(r) /\ req[r].response.status = 400 =>
                /\ req[r].calls = <<>>
                /\ req[r].response.error \in BodyErrors
                /\ req[r].trimmedUrl = <<>>)
    /\ [][started' # started =>
            \A r \in Reqs, body \in {b \in Bodies : BodyInvalid(b)}, authHeader \in AuthHeaders :
                POST(r, body, authHeader) =>
                    /\ req'[r].pc = "done"
                    /\ req'[r].response.status = 400
                    /\ req'[r].calls = <<>>
                    /\ diagnosis_cache' = diagnosis_cache
                    /\ diagnosis_history' = diagnosis_history]_vars

\* both requests have been answered with 400, one for a body that is no
\* object and one for a blank url, with nothing stored
C13_Witness ==
    /\ Done(1) /\ req[1].response = ErrorResponse(400, Sentence("MSG_INVALID_REQUEST_FORMAT"), Null)
    /\ Done(2) /\ req[2].response = ErrorResponse(400, Sentence("MSG_ENTER_VALID_URL"), Null)
    /\ diagnosis_cache = <<>>
    /\ diagnosis_history = <<>>

\* the header is absent or does not start with 'Bearer '
NoBearer(authHeader) == authHeader = <<>> \/ ~StartsWith(authHeader, BearerPrefix)

\* the request q as it would stand had it arrived now without a header, with
\* the call of the identity service on its record
AsAnonymous(q) ==
    [Begin([InitialRequest EXCEPT !.startedAfter = q.startedAfter],
           [kind |-> "url", url |-> q.trimmedUrl], <<>>)
        EXCEPT !.calls = <<"getUser">> \o @]

\* C14: a request with a valid body and no Bearer header goes to the cache
\* lookup unauthenticated without calling the identity service; one whose
\* token the identity service rejects, or whose verification throws, goes on
\* from there exactly as a request without a header does; an unauthenticated
\* request saves no history and gets the filtered report; every error
\* response is a 400 for the body or follows a failed page retrieval or a
\* failed analysis.
C14_CredentialProblemsNotErrors ==
    /\ [](\A r \in Reqs :
            /\ Done(r) /\ req[r].response.status # 200 =>
                  \/ req[r].response.status = 400 /\ req[r].calls = <<>>
                  \/ req[r].response.status = 422 /\ "scrapeWebpage" \in req[r].faults
                  \/ req[r].response.status = 503 /\ "diagnoseWebsiteContent" \in req[r].faults
            /\ ~req[r].isAuthenticated =>
                  /\ ~Made(r, "saveDiagnosisHistory")
                  /\ Done(r) /\ req[r].response.status = 200 =>
                        \E report \in Reports :
                            req[r].response.result = filterDiagnosisForAnonymous(report))
    /\ [][started' # started =>
            \A r \in Reqs, body \in {b \in Bodies : ~BodyInvalid(b)},
               authHeader \in {h \in AuthHeaders : NoBearer(h)} :
                POST(r, body, authHeader) =>
                    /\ ~req'[r].isAuthenticated
                    /\ req'[r].pc = "getCachedDiagnosis"
                    /\ req'[r].calls = <<"getCachedDiagnosis">>]_vars
    /\ [][started' = started =>
            \A r \in Reqs, outcome \in {"authError", "throws"} :
                getUserReturns(r, outcome) => req'[r] = AsAnonymous(req[r])]_vars

\* a request whose token was not verified has been answered with the
\* filtered report
C14_Witness ==
    \E r \in Reqs :
        /\ Done(r)
        /\ Made(r, "getUser")
        /\ ~req[r].isAuthenticated
        /\ req[r].response.status = 200
        /\ req[r].response.result = filterDiagnosisForAnonymous(ReportDetailed)

\* C15: a success response carries the request's isAuthenticated, and
\* hasFullAccess equal to it; isAuthenticated becomes true only in the step
\* in which the identity service verifies the token of that request, and
\* from the cache lookup on neither it nor userId changes until the request
\* is answered; it is reset only when a new request takes the slot.
C15_AuthorizationFlags ==
    /\ [](\A r \in Reqs :
            /\ Done(r) /\ req[r].response.status = 200 =>
                  /\ req[r].response.isAuthenticated = req[r].isAuthenticated
                  /\ req[r].response.hasFullAccess = req[r].response.isAuthenticated
            /\ req[r].isAuthenticated <=> req[r].userId # Null
            /\ req[r].isAuthenticated =>
                  Len(req[r].calls) > 0 /\ req[r].calls[1] = "getUser")
    /\ [][\A r \in Reqs :
            /\ ~req[r].isAuthenticated /\ req'[r].isAuthenticated => getUserReturns(r, "user")
            /\ req[r].isAuthenticated /\ ~req'[r].isAuthenticated =>
                  req[r].pc = "done" /\ started' # started
            /\ req[r].pc \notin {"idle", "getUser", "done"} =>
                  /\ req'[r].isAuthenticated = req[r].isAuthenticated
                  /\ req'[r].userId = req[r].userId]_vars

\* a verified caller and an unverified one have both been answered with a
\* report, the first with full access and the second without
C15_Witness ==
    \E r \in Reqs, q \in Reqs :
        /\ Done(r) /\ req[r].response.status = 200
        /\ req[r].response.isAuthenticated /\ req[r].response.hasFullAccess
        /\ Done(q) /\ req[q].response.status = 200
        /\ Made(q, "getUser")
        /\ ~req[q].response.isAuthenticated /\ ~req[q].response.hasFullAccess

\* how many history saves the request has attempted
HistoryCalls(r) ==
    Cardinality({k \in 1..Len(req[r].calls) : req[r].calls[k] = "saveDiagnosisHistory"})

\* the request waits for its history save
SavingHistory(r) == req[r].pc \in {"saveDiagnosisHistory", "saveDiagnosisHistoryCached"}

\* C16: a request answered with a report has attempted one history save
\* when its caller is authenticated and none otherwise, and its response is
\* the same whether the save failed or not; an unauthenticated request
\* never attempts one.  The step that ends a save answers with the full
\* report, cached on the cache-hit path and not cached on the other, and
\* either appends the row (userId, trimmed URL, full report) or, when the
\* save fails, leaves the table as it is.
C16_HistoryOpportunistic ==
    /\ [](\A r \in Reqs :
            /\ ~req[r].isAuthenticated => HistoryCalls(r) = 0
            /\ Done(r) /\ req[r].response.status = 200 =>
                  /\ HistoryCalls(r) = IF req[r].isAuthenticated THEN 1 ELSE 0
                  /\ req[r].response =
                        ExpectedSuccess(r, IF req[r].response.cached THEN req[r].cachedResult
                                           ELSE req[r].diagnosis,
                                        req[r].response.cached))
    /\ [][started' = started =>
            \A r \in Reqs :
                SavingHistory(r) /\ req'[r] # req[r] =>
                    LET report == IF req[r].pc = "saveDiagnosisHistoryCached"
                                  THEN req[r].cachedResult ELSE req[r].diagnosis
                        row == [user_id |-> req[r].userId, url |-> req[r].trimmedUrl,
                                diagnosis_result |-> report]
                    IN  /\ req[r].isAuthenticated /\ req[r].userId # Null
                        /\ req'[r].pc = "done"
                        /\ req'[r].response =
                              [status |-> 200, result |-> report,
                               cached |-> (req[r].pc = "saveDiagnosisHistoryCached"),
                               isAuthenticated |-> TRUE, hasFullAccess |-> TRUE]
                        /\ IF "saveDiagnosisHistory" \in req'[r].faults
                           THEN diagnosis_history' = diagnosis_history
                           ELSE diagnosis_history' = Append(diagnosis_history, row)]_vars

\* two authenticated requests have been answered with the report: the one
\* that made the diagnosis although its history save failed, the other from
\* the cache with its history saved
C16_Witness ==
    \E r \in Reqs, q \in Reqs :
        /\ Done(r) /\ req[r].response.status = 200 /\ ~req[r].response.cached
        /\ req[r].isAuthenticated /\ "saveDiagnosisHistory" \in req[r].faults
        /\ Done(q) /\ req[q].response.status = 200 /\ req[q].response.cached
        /\ req[q].isAuthenticated /\ req[q].faults = {}
        /\ req[q].response.result = req[r].response.result
        /\ diagnosis_history =
              << [user_id |-> req[q].userId, url |-> req[q].trimmedUrl,
                  diagnosis_result |-> req[q].cachedResult] >>

\* C17: the response of a request is produced without waiting for its
\* history save: a request that waits for the save has been answered.
C17_ResponseNeverWaitsForHistory ==
    \A r \in Reqs : SavingHistory(r) => req[r].response # NoResponse

(***************************************************************************)
(* Properties of the error messages.                                       *)
(***************************************************************************)
\* C18: the five ways the analysis fails (rate limit, invalid key, quota,
\* no usable text, anything else) are answered with five different
\* messages: the message sent when it fails in one way is not the message
\* of any other way; and the model service is called once.
C18_FailureClassesHaveDistinctMessages ==
    /\ [](\A r \in Reqs :
            Cardinality({k \in 1..Len(req[r].calls) : req[r].calls[k] = "messages.create"}) <= 1)
    /\ [][started' = started =>
            \A r \in Reqs, class \in AnalysisErrors :
                diagnoseWebsiteContentReturns(r, class) =>
                    \A other \in AnalysisErrors \ {class} :
                        req'[r].response.error # Sentence(AnalysisErrorMessage(other))]_vars

\* the fixed sentences of the handler, of validateUrl, of scrapeWebpage and
\* of diagnoseWebsiteContent
FixedSentences ==
    { Sentence(message) : message \in
        { "MSG_INVALID_REQUEST_FORMAT", "MSG_URL_NOT_SPECIFIED", "MSG_ENTER_VALID_URL",
          "MSG_INVALID_URL_FORMAT", "MSG_UNSUPPORTED_PROTOCOL", "MSG_INVALID_DOMAIN",
          "MSG_PRIVATE_IP", "MSG_LOCALHOST", "MSG_TIMEOUT", "MSG_NETWORK_ERROR",
          "MSG_CONTENT_TOO_SHORT", "MSG_NO_CONTENT", "MSG_RATE_LIMIT",
          "MSG_INVALID_API_KEY", "MSG_INSUFFICIENT_QUOTA", "MSG_AI_ERROR",
          "MSG_INTERNAL_ERROR" } }

\* the texts the target site and the network supply with a failed GET
CollaboratorTexts == {outcome.text : outcome \in FetchErrors}

\* the request has been answered with an error
Failed(r) == Done(r) /\ req[r].response.status # 200

\* C19 as stated: every error message is one of the fixed sentences and
\* contains no text supplied by a collaborator.
C19_ErrorMessagesAreFixedSentences ==
    \A r \in Reqs :
        Failed(r) =>
            /\ req[r].response.error \in FixedSentences
            /\ \A text \in CollaboratorTexts : ~Includes(req[r].response.error, text)

\* the message is written around the text of a failed GET: the sentence for
\* an HTTP error around its status and status text, the sentence for a
\* content type around the Content-Type, or the message of a network error
\* itself
WrittenAround(error, outcome) ==
    \/ /\ outcome.kind = "httpError"
       /\ error = HttpErrorPrefix \o outcome.status \o <<" ">> \o outcome.text \o HttpErrorSuffix
    \/ /\ outcome.kind = "notHtml"
       /\ error = NotHtmlPrefix \o outcome.text \o NotHtmlSuffix
    \/ /\ outcome.kind = "network"
       /\ error = outcome.text

\* C19, amended: every error message is one of the fixed sentences, but for
\* those of a failed page retrieval (422) that are written around the target
\* server's status and status text or Content-Type, or are the message of a
\* network error that does not contain 'fetch'.  The messages of the 400,
\* 503 and 500 responses, of a timeout and of a network error whose message
\* contains 'fetch' are fixed sentences.
C19_ErrorMessages ==
    /\ [](\A r \in Reqs :
            Failed(r) =>
                \/ req[r].response.error \in FixedSentences
                \/ /\ req[r].response.status = 422
                   /\ \E outcome \in FetchErrors :
                         /\ WrittenAround(req[r].response.error, outcome)
                         /\ ~Includes(outcome.text, <<"f", "e", "t", "c", "h">>))
    /\ [][started' = started =>
            \A r \in Reqs, outcome \in FetchErrors :
                /\ fetchReturns(r, outcome)
                /\ \/ outcome.kind = "timeout"
                   \/ Includes(outcome.text, <<"f", "e", "t", "c", "h">>)
                => /\ req'[r].response.error \in FixedSentences
                   /\ ~Includes(req'[r].response.error, outcome.text)]_vars

\* one request has been answered with the message written around
\* '404 Not Found', the other with the fixed sentence for a network error
C19_Witness ==
    \E r \in Reqs, q \in Reqs :
        /\ Failed(r)
        /\ req[r].response.error =
              HttpErrorPrefix \o <<"4", "0", "4", " ", "N", "o", "t", " ", "F", "o", "u", "n", "d">>
                  \o HttpErrorSuffix
        /\ Failed(q)
        /\ req[q].response.error = Sentence("MSG_NETWORK_ERROR")

(***************************************************************************)
(* Properties of validateUrl.                                              *)
(***************************************************************************)
\* the host without the brackets of an IPv6 literal
Unbracket(host) ==
    IF StartsWith(host, <<"[">>) /\ EndsWith(host, <<"]">>)
    THEN SubSeq(host, 2, Len(host) - 1) ELSE host

\* the host, as written, is one the private-address patterns or the
\* localhost check are written for
TextuallyPrivate(host) == PRIVATE_IP_PATTERNS(Unbracket(host)) \/ IsLocalhost(host)

\* the URL is written with http:// or https://
WrittenWithHttp(url) ==
    \/ StartsWith(url, <<"h", "t", "t", "p", ":", "/", "/">>)
    \/ StartsWith(url, <<"h", "t", "t", "p", "s", ":", "/", "/">>)

\* every run of validateUrl, step by step, ends as the function does
ValidateRunAgrees ==
    validateRun.pc = "done" => validateRun.result = validateUrl(validateRun.url)

\* a URL with a private host is never accepted
PrivateHostNeverAccepted ==
    validateRun.pc = "done" /\ TextuallyPrivate(validateRun.host) => ~validateRun.result.ok

\* C11: validateUrl rejects every URL whose host is textually private,
\* loopback or link-local with the message of its private-address or of its
\* localhost check, whatever the scheme and the shape of the URL.
C11_PrivateHostGetsPrivateRejection ==
    validateRun.pc = "done" /\ TextuallyPrivate(validateRun.host) =>
        /\ ~validateRun.result.ok
        /\ validateRun.result.error \in {"MSG_PRIVATE_IP", "MSG_LOCALHOST"}

\* C12: validateUrl accepts every URL written with http:// or https:// and a
\* public host, with or without a port, a path or a query string, and the
\* URL it returns reads as the input.
C12_PublicUrlAccepted ==
    /\ validateRun.pc = "done"
    /\ WrittenWithHttp(validateRun.url)
    /\ ~TextuallyPrivate(validateRun.host)
    => /\ validateRun.result.ok
       /\ validateRun.result.url.href = validateRun.url
(***************************************************************************)
(* Properties of scrapeWebpage's cap on the content.                       *)
(***************************************************************************)

\* the run of scrapeWebpage agrees with ScrapeOutcome, which the handler uses
ScrapeRunAgrees ==
    scrapeRun.pc = "done" =>
        scrapeRun.result = ScrapeOutcome(TextOfLength(MinHtmlLength), scrapeRun.analysisContent)

\* C20: a summary longer than maxLength (10,000) characters is returned as
\* its first maxLength characters followed by the truncation notice, of
\* length maxLength plus the length of the notice; a summary of at most
\* maxLength characters is returned unchanged (the empty summary, the only
\* one without content, is returned by no run: it is refused).
C20_TruncationLaw ==
    scrapeRun.pc = "done" =>
        LET summary == scrapeRun.analysisContent
            result == scrapeRun.result
        IN  /\ Len(summary) > maxLength =>
                  /\ result.ok
                  /\ result.content = SubSeq(summary, 1, maxLength) \o ScrapeTruncationNotice
                  /\ Len(result.content) = maxLength + Len(ScrapeTruncationNotice)
            /\ Len(summary) <= maxLength =>
                  IF result.ok THEN result.content = summary ELSE summary = <<>>

\* a summary of maxLength + 1 characters has been truncated
C20_Witness ==
    /\ scrapeRun.pc = "done"
    /\ Len(scrapeRun.analysisContent) = maxLength + 1
    /\ scrapeRun.result.ok
    /\ Len(scrapeRun.result.content) = maxLength + Len(ScrapeTruncationNotice)

\* a summary of exactly maxLength characters has been returned as it is
C20_WitnessAtCap ==
    /\ scrapeRun.pc = "done"
    /\ Len(scrapeRun.analysisContent) = maxLength
    /\ scrapeRun.result.ok
    /\ scrapeRun.result.content = scrapeRun.analysisContent

(***************************************************************************)
(* Properties of the cache under requests that run together.               *)
(***************************************************************************)

\* row i is for the URL of request r and inside the window of its lookup
InWindow(r, i) ==
    /\ diagnosis_cache[i].url = req[r].trimmedUrl
    /\ diagnosis_cache[i].created_at >= req[r].twentyFourHoursAgo

\* C21: when the store answers a lookup for which rows inside the 24-hour
\* window exist, getCachedDiagnosis returns the result of a row whose
\* created_at is the most recent among them, in whatever order the rows were
\* inserted; and a step of the program leaves every row of diagnosis_cache
\* as it is, adding at most one row at the end.
C21_FreshestRecordWins ==
    /\ [][started' = started =>
            \A r \in Reqs :
                /\ getCachedDiagnosisReturns(r, TRUE)
                /\ \E i \in 1..Len(diagnosis_cache) : InWindow(r, i)
                => \E i \in 1..Len(diagnosis_cache) :
                      /\ InWindow(r, i)
                      /\ req'[r].cachedResult = diagnosis_cache[i].result
                      /\ \A j \in 1..Len(diagnosis_cache) :
                            InWindow(r, j) =>
                                diagnosis_cache[j].created_at <= diagnosis_cache[i].created_at]_vars
    /\ [][/\ Len(diagnosis_cache') \in {Len(diagnosis_cache), Len(diagnosis_cache) + 1}
          /\ SubSeq(diagnosis_cache', 1, Len(diagnosis_cache)) = diagnosis_cache]_vars

\* two rows for one URL were inserted against the order of their created_at,
\* with different results, and a request has been answered from the cache
\* with the result of the more recent one, inserted first
C21_Witness ==
    /\ Len(diagnosis_cache) = 2
    /\ diagnosis_cache[1].url = diagnosis_cache[2].url
    /\ diagnosis_cache[1].created_at > diagnosis_cache[2].created_at
    /\ diagnosis_cache[1].result # diagnosis_cache[2].result
    /\ \E r \in Reqs :
          /\ Done(r)
          /\ req[r].response.status = 200
          /\ req[r].response.cached
          /\ req[r].cachedResult = diagnosis_cache[1].result

(***************************************************************************)
(* Properties of the order of the stages of one request.                   *)
(***************************************************************************)

\* the calls of the stages of a new diagnosis that request r has made
StageCalls(r) ==
    SelectSeq(req[r].calls,
              LAMBDA call : call \in {"fetch", "messages.create", "saveDiagnosisCache"})

\* where a request waiting at pc may be after its next step: at the next
\* stage, or answered
StageAfter(pc) ==
    CASE pc = "getCachedDiagnosis" ->
            {"fetch", "saveDiagnosisHistoryCached", "done"}
      [] pc = "fetch" -> {"diagnoseWebsiteContent", "done"}
      [] pc = "diagnoseWebsiteContent" -> {"saveDiagnosisCache", "done"}
      [] pc = "saveDiagnosisCache" -> {"saveDiagnosisHistory", "done"}
      [] pc = "saveDiagnosisHistory" -> {"done"}
      [] pc = "saveDiagnosisHistoryCached" -> {"done"}
      [] OTHER -> {"getUser", "getCachedDiagnosis", "done"}

\* C22: on a cache miss the stages run in the order fetch and extraction,
\* analysis, put, redaction and response, each at most once and each when
\* the one before has returned: the calls made are a prefix of fetch,
\* analysis, put; the analysis is awaited only with extracted content, the
\* put only with the report of the analysis; a request leaves a stage only
\* for the next one or for its response; a request that failed in a stage
\* made no call of a later one; and the success response of a miss is sent
\* only by a request whose put has returned.
C22_StrictStageOrder ==
    /\ [](\A r \in Reqs :
            /\ \E n \in 0..3 :
                  StageCalls(r) =
                      SubSeq(<<"fetch", "messages.create", "saveDiagnosisCache">>, 1, n)
            /\ req[r].pc = "diagnoseWebsiteContent" => req[r].scrapedContent # <<>>
            /\ Made(r, "saveDiagnosisCache") => req[r].diagnosis \in Reports
            /\ req[r].pc \in {"fetch", "diagnoseWebsiteContent", "saveDiagnosisCache",
                               "saveDiagnosisHistory"}
                  => req[r].response = NoResponse)
    /\ [][\A r \in Reqs :
            req'[r].pc # req[r].pc /\ req[r].pc \notin {"idle", "done"} =>
                /\ req'[r].pc \in StageAfter(req[r].pc)
                /\ req'[r].pc = "done" /\ req'[r].response.status = 200
                       /\ ~req'[r].response.cached
                   => req[r].pc \in {"saveDiagnosisCache", "saveDiagnosisHistory"}]_vars

\* an authenticated request has run every stage of a new diagnosis and has
\* been answered
C22_Witness ==
    \E r \in Reqs :
        /\ Done(r)
        /\ req[r].response.status = 200
        /\ ~req[r].response.cached
        /\ req[r].calls = <<"getUser", "getCachedDiagnosis", "fetch", "messages.create",
                            "saveDiagnosisCache", "saveDiagnosisHistory">>

(***************************************************************************)
(* Properties of the content handed to the analysis.                       *)
(***************************************************************************)

\* C23: when the page fetched gives an empty or blank summary, the request
\* is answered 422 with code SCRAPE_ERROR in that step, without a call of
\* the model service and without a row written; and a request waits for the
\* model service only with content that is not blank.
C23_BlankNeverAnalysed ==
    /\ [][started' = started =>
            \A r \in Reqs, html \in Pages :
                /\ fetchReturns(r, PageOutcome(html))
                /\ Len(html) >= MinHtmlLength
                /\ Trim(tables.Summary[html]) = <<>>
                => /\ req'[r].pc = "done"
                   /\ req'[r].response.status = 422
                   /\ req'[r].response.code = "SCRAPE_ERROR"
                   /\ req'[r].calls = req[r].calls
                   /\ diagnosis_cache' = diagnosis_cache]_vars
    /\ [](\A r \in Reqs :
            /\ req[r].pc = "diagnoseWebsiteContent" => Trim(req[r].scrapedContent) # <<>>
            /\ Done(r) /\ req[r].response.status = 422
                  => ~Made(r, "messages.create") /\ ~Made(r, "saveDiagnosisCache"))

\* a page of scripts and styles only has been refused: no call of the model
\* service, no row
C23_Witness ==
    \E r \in Reqs :
        /\ Done(r)
        /\ req[r].response.status = 422
        /\ req[r].response.error = Sentence("MSG_NO_CONTENT")
        /\ ~Made(r, "messages.create")
        /\ diagnosis_cache = <<>>

(***************************************************************************)
(* Properties of the flag of filterDiagnosisForAnonymous.                  *)
(***************************************************************************)

\* the line that the pass of the loop now due reads
CurrentLine == filterRun.lines[filterRun.i]

\* a pass of the loop body is taken
LoopPass ==
    /\ filterRun.pc = "loop"
    /\ filterRun.i <= Len(filterRun.lines)
    /\ filterRun'.i = filterRun.i + 1

\* C24: the flag inRestrictedSection is false when the first line is read;
\* a pass over a line starting with '#' leaves it true exactly when the line
\* contains one of the four keywords, whatever it was before and whatever
\* the level of the heading; a pass over any other line leaves it as it was.
C24_RestrictedFlag ==
    /\ [](filterRun.pc \in {"idle", "called"} \/ (filterRun.pc = "loop" /\ filterRun.i = 1)
            => ~filterRun.inRestrictedSection)
    /\ [][LoopPass =>
            IF CurrentLine # <<>> /\ CurrentLine[1] = "#"
            THEN filterRun'.inRestrictedSection
                    = (\E kw \in RestrictedKeywords : Includes(CurrentLine, kw))
            ELSE filterRun'.inRestrictedSection = filterRun.inRestrictedSection]_vars

\* a heading of level one with a keyword set the flag, a score line and a
\* list line left it set, and a heading without keyword has cleared it
C24_Witness ==
    /\ filterRun.pc = "loop"
    /\ filterRun.i = 5
    /\ filterRun.lines =
          << <<"#", " ", "u5177", "u4F53">>, <<"9", "%">>, <<"-", " ", "a", "b">>,
             <<"#", " ", "a">> >>
    /\ Len(filterRun.filteredLines) = 4
    /\ ~filterRun.inRestrictedSection

\* the lines that are headings with a keyword
RestrictedHeadings(lines) ==
    {k \in 1..Len(lines) :
        /\ lines[k] # <<>>
        /\ lines[k][1] = "#"
        /\ \E kw \in RestrictedKeywords : Includes(lines[k], kw)}

\* C25: a pass of the loop taken with the flag clear pushes the line it
\* reads, unchanged, blank or not; so the filtered text of a report without a
\* heading that has a keyword is the report, and the filtered lines of any
\* report up to its first such heading are its lines up to that heading.
C25_UnrestrictedPassThrough ==
    /\ [][LoopPass /\ ~filterRun.inRestrictedSection =>
            filterRun'.filteredLines = Append(filterRun.filteredLines, CurrentLine)]_vars
    /\ [](filterRun.pc = "done" =>
            LET lines == filterRun.lines
                first == IF RestrictedHeadings(lines) = {} THEN Len(lines)
                         ELSE CHOOSE k \in RestrictedHeadings(lines) :
                                 \A j \in RestrictedHeadings(lines) : k <= j
            IN  /\ RestrictedHeadings(lines) = {} => filterRun.result = filterRun.fullResult
                /\ Len(filterRun.filteredLines) >= first
                /\ SubSeq(filterRun.filteredLines, 1, first) = SubSeq(lines, 1, first))

\* a report of a heading, prose, a blank line and a line of one space, with
\* no keyword, has come back as it went in
C25_Witness ==
    /\ filterRun.pc = "done"
    /\ filterRun.lines = << <<"#", " ", "a">>, <<"p", "q">>, <<>>, <<" ">> >>
    /\ filterRun.result = filterRun.fullResult
    /\ filterRun.result =
          <<"#", " ", "a", LF, "p", "q", LF, LF, " ">>

(***************************************************************************)
(* Properties of requests for one URL that run together.                   *)
(***************************************************************************)

\* the locals of request r, without the record of who was answered before it
Locals(r) == [req[r] EXCEPT !.startedAfter = {}]

\* requests r and q were in flight together
Overlapping(r, q) ==
    r # q /\ r \notin req[q].startedAfter /\ q \notin req[r].startedAfter

\* C26: requests are not coalesced and share only the store.  A step of one
\* request leaves the locals of every other request as they are; a request
\* answered after a miss has made its own fetch, analysis call and put and
\* carries the report of its own analysis, whatever another request for the
\* same URL has done meanwhile; and two such requests for one URL have each
\* written a row (the interleaving itself is the state C26_Witness).
C26_NoCoalescing ==
    /\ [][\A r \in Reqs, q \in Reqs :
            r # q /\ Locals(r)' # Locals(r) => Locals(q)' = Locals(q)]_vars
    /\ [](\A r \in Reqs :
            MissSuccess(r) =>
                /\ req[r].response = ExpectedSuccess(r, req[r].diagnosis, FALSE)
                /\ StageCalls(r) = <<"fetch", "messages.create", "saveDiagnosisCache">>)
    /\ [](\A r \in Reqs, q \in Reqs :
            /\ r # q
            /\ MissSuccess(r)
            /\ MissSuccess(q)
            /\ req[r].trimmedUrl = req[q].trimmedUrl
            => \E i \in RowsFor(req[r].trimmedUrl), j \in RowsFor(req[r].trimmedUrl) :
                  /\ i # j
                  /\ diagnosis_cache[i].result = req[r].diagnosis
                  /\ diagnosis_cache[j].result = req[q].diagnosis)

\* two requests for one URL, in flight together, have both missed, both
\* fetched and analysed, with different reports, both written a row and both
\* been answered with cached: false
C26_Witness ==
    /\ Overlapping(1, 2)
    /\ MissSuccess(1)
    /\ MissSuccess(2)
    /\ req[1].trimmedUrl = req[2].trimmedUrl
    /\ req[1].diagnosis # req[2].diagnosis
    /\ req[1].response.status = 200 /\ ~req[1].response.cached
    /\ req[2].response.status = 200 /\ ~req[2].response.cached
    /\ Len(diagnosis_cache) = 2
    /\ \A r \in {1, 2} : StageCalls(r) = <<"fetch", "messages.create", "saveDiagnosisCache">>

(***************************************************************************)
(* Properties of the end of a request.                                     *)
(***************************************************************************)

\* request r waits for a collaborator
InFlight(r) == req[r].pc \notin {"idle", "done"}

C28_StoreHoldsFullReports ==
    /\ [](/\ \A i \in 1..Len(diagnosis_cache) : diagnosis_cache[i].result \in Reports
          /\ \A i \in 1..Len(diagnosis_history) :
                diagnosis_history[i].diagnosis_result \in Reports
          /\ \A r \in Reqs :
                Done(r) /\ req[r].response.status = 200 =>
                    /\ \E report \in Reports :
                          req[r].response.result =
                              IF req[r].isAuthenticated THEN report
                              ELSE filterDiagnosisForAnonymous(report)
                    /\ req[r].response.cached /\ req[r].isAuthenticated =>
                          /\ req[r].response.result = req[r].cachedResult
                          /\ \E i \in RowsFor(req[r].trimmedUrl) :
                                diagnosis_cache[i].result = req[r].cachedResult)
    /\ [][Len(diagnosis_cache') > Len(diagnosis_cache) =>
            \E r \in Reqs :
                /\ req[r].pc = "saveDiagnosisCache"
                /\ diagnosis_cache'[Len(diagnosis_cache')].result = req[r].diagnosis]_vars

\* an anonymous request stored a report with a restricted section and was
\* sent the filtered text; an authenticated request that came after it has
\* been answered from that row with the whole report
C28_Witness ==
    \E r \in Reqs, q \in Reqs :
        /\ MissSuccess(r)
        /\ ~req[r].isAuthenticated
        /\ req[r].diagnosis = ReportDetailed
        /\ req[r].response.result # ReportDetailed
        /\ Len(diagnosis_cache) = 1
        /\ Done(q)
        /\ req[q].isAuthenticated
        /\ req[q].response.status = 200
        /\ req[q].response.cached
        /\ req[q].response.result = ReportDetailed

(***************************************************************************)
(* Properties of what the filtered text depends on.                        *)
(***************************************************************************)

\* line i is prose of a restricted section: not blank, no heading, no score
\* line, no list item
RestrictedProseAt(lines, i) ==
    /\ HiddenAt(lines, i)
    /\ Trim(lines[i]) # <<>>
    /\ ~IsListLine(lines[i])

\* other prose: 'xy' and 'z 詳細 7'
OtherProse ==
    { <<"x", "y">>, <<"z", " ", "u8A73", "u7D30", " ", "7">> }

\* the reports that differ from `lines` in the text of restricted prose only
ProseVariants(lines) ==
    LET at == {i \in 1..Len(lines) : RestrictedProseAt(lines, i)}
    IN  { [i \in 1..Len(lines) |-> IF i \in changed THEN prose ELSE lines[i]] :
            changed \in SUBSET at, prose \in OtherProse }

\* C29: two reports that differ only in the text of lines that are prose of
\* restricted sections in both have the same filtered text, hence the same
\* response to a caller who is not authenticated: the filtered text of
\* every such variant of the report of the run is the result of the run.
C29_ViewIndependentOfRestrictedProse ==
    filterRun.pc = "done" =>
        \A other \in ProseVariants(filterRun.lines) :
            /\ \A i \in 1..Len(other) :
                  RestrictedProseAt(other, i) = RestrictedProseAt(filterRun.lines, i)
            /\ filterDiagnosisForAnonymous(Join(other)) = filterRun.result

\* a report with two lines of prose under a heading with a keyword has been
\* filtered, and a variant of it differs from it in both lines
C29_Witness ==
    /\ filterRun.pc = "done"
    /\ filterRun.lines =
          << <<"#", "#", " ", "u6539", "u5584">>, <<"p", "q">>, <<"9", "%">>, <<"p", "q">> >>
    /\ filterRun.result = Join(<< <<"#", "#", " ", "u6539", "u5584">>, MaskLine, <<"9", "%">>, MaskLine >>)
    /\ \E other \in ProseVariants(filterRun.lines) :
          other[2] # filterRun.lines[2] /\ other[4] # filterRun.lines[4]

(***************************************************************************)
(* Properties of AuthProvider.                                             *)
(***************************************************************************)

\* in every state isAuthenticated is true exactly when user is not null
AuthenticatedIffUser ==
    auth.authState.isAuthenticated = (auth.authState.user # Null)

\* C30: once a call of updateAuthState has set the state, no call started
\* before it sets the state later; and isAuthenticated is true exactly when
\* user is not null.
C30_LatestAuthEventWins ==
    /\ [](auth.authState.isAuthenticated = (auth.authState.user # Null))
    /\ [][auth'.lastApplied >= auth.lastApplied]_vars

====
